---- MODULE Spec2Model ----
(***************************************************************************)
(* A model of the File Tree (src/3FT/ft.c) and of its nodes                *)
(* (src/3FT/nodeFT.c).  The heap of nodes, the root pointer and the        *)
(* initialization flag are the state; every FT_ function is one action.    *)
(* Each function is written as an operator from the state before the call  *)
(* to its outcome, so that sequences of calls can be composed.             *)
(***************************************************************************)
EXTENDS Integers, Sequences, FiniteSets, TLC

(* ---- bounds ---- *)
MaxDepth == 3           \* deepest path handed to the FT
MaxNodes == 3           \* cells of the node heap (malloc fails beyond)
MaxFault == 2           \* latest allocation request a fault is injected at
MaxDrift == 1           \* how far below zero the node count is followed

(* ---- return codes (a4def.h) ---- *)
SUCCESS == "SUCCESS"
INITIALIZATION_ERROR == "INITIALIZATION_ERROR"
BAD_PATH == "BAD_PATH"
CONFLICTING_PATH == "CONFLICTING_PATH"
NO_SUCH_PATH == "NO_SUCH_PATH"
NOT_A_DIRECTORY == "NOT_A_DIRECTORY"
NOT_A_FILE == "NOT_A_FILE"
ALREADY_IN_TREE == "ALREADY_IN_TREE"
MEMORY_ERROR == "MEMORY_ERROR"
\* a failed assert(): the process is aborted
ABORTED == "ABORTED"

FT_DIR == "FT_DIR"
FT_FILE == "FT_FILE"

(* ---- Path (external module, used through its interface) ---- *)
\* two component names, 1 < 2: enough for equal, smaller and greater paths
\* and for a root that is or is not a prefix of a path
Components == {1, 2}
\* A path string is a sequence of components; component 0 stands for an
\* empty component, which makes the string malformed.
PathStrings == UNION {[1..n -> Components] : n \in 0..MaxDepth} \cup {<<0>>}
NULLPATH == <<0>>

\* the n-th allocation request of a call fails when a fault was injected at
\* request ulFault or earlier (0: no fault)
AllocFails(ulFault, n) == ulFault # 0 /\ n >= ulFault

Path_create(pcPath) ==
    IF \E i \in 1..Len(pcPath) : pcPath[i] = 0 THEN NULLPATH ELSE pcPath

Path_getDepth(oPPath) == Len(oPPath)

\* size_t arithmetic wraps; the width is cut to 30 bits, wide enough for
\* every count of the model
SizeModulus == 2^30
SizeT(n) == n % SizeModulus

\* the first ulDepth components of oPPath; no prefix (NULL) when ulDepth is
\* greater than the depth of oPPath
Path_prefix(oPPath, ulDepth) ==
    IF ulDepth > Len(oPPath) THEN NULLPATH ELSE SubSeq(oPPath, 1, ulDepth)

\* a Path_T handed over where a size_t is expected: the address of the path
\* object, which lies above the depth of every path
PathAsDepth(oPPath) == SizeT(SizeModulus - 1 - Len(oPPath))

\* TRUE iff oPPath1 is a prefix of oPPath2
Path_isPrefix(oPPath1, oPPath2) ==
    /\ Len(oPPath1) <= Len(oPPath2)
    /\ SubSeq(oPPath2, 1, Len(oPPath1)) = oPPath1

\* lexicographic comparison of the path strings: <0, 0, >0
RECURSIVE Path_comparePath(_, _)
Path_comparePath(oPPath1, oPPath2) ==
    IF oPPath1 = <<>> /\ oPPath2 = <<>> THEN 0
    ELSE IF oPPath1 = <<>> THEN 0 - 1
    ELSE IF oPPath2 = <<>> THEN 1
    ELSE IF Head(oPPath1) < Head(oPPath2) THEN 0 - 1
    ELSE IF Head(oPPath1) > Head(oPPath2) THEN 1
    ELSE Path_comparePath(Tail(oPPath1), Tail(oPPath2))

(* ---- Node (src/3FT/nodeFT.c) ---- *)
NULL == 0
NodeIds == 1..MaxNodes

\* a DynArray_T, or the NULL pointer in its place
NullArray == [null |-> TRUE, a |-> <<>>]
DynArray_new == [null |-> FALSE, a |-> <<>>]
\* a char* contents buffer (the bytes before the terminating 0), or NULL
NullContents == [null |-> TRUE, s |-> <<>>]
Contents(bytes) == [null |-> FALSE, s |-> bytes]

\* struct node; live is FALSE for a cell that is not allocated
FreeCell ==
    [live |-> FALSE, oPPath |-> <<>>, oNParent |-> NULL,
     oChildren |-> NullArray, eType |-> FT_DIR, pcContents |-> NullContents]

Node_getPath(nodes, oNNode) == nodes[oNNode].oPPath
Node_getParent(nodes, oNNode) == nodes[oNNode].oNParent
Node_getType(nodes, oNNode) == nodes[oNNode].eType

\* the children array of a directory as a sequence of node ids
Children(nodes, oNParent) == nodes[oNParent].oChildren.a

\* asserts that oNParent is a directory
Node_getNumChildrenAborts(nodes, oNParent) ==
    Node_getType(nodes, oNParent) # FT_DIR
Node_getNumChildren(nodes, oNParent) == Len(Children(nodes, oNParent))

Node_hasChild(nodes, oNParent, oPPath) ==
    \E i \in 1..Len(Children(nodes, oNParent)) :
        Path_comparePath(Node_getPath(nodes, Children(nodes, oNParent)[i]),
                         oPPath) = 0

\* the cell malloc hands out: NULL when the heap is exhausted
Malloc(nodes) ==
    IF \E n \in NodeIds : ~nodes[n].live
    THEN CHOOSE n \in NodeIds :
            ~nodes[n].live /\ \A m \in NodeIds : ~nodes[m].live => n <= m
    ELSE NULL

\* a mutant of NewNode: the parent field is set to the node itself
NewNodeSelfParent(cell, oPPath, oNParent, eType) ==
    [live |-> TRUE, oPPath |-> oPPath, oNParent |-> cell,
     oChildren |-> IF eType = FT_DIR THEN DynArray_new ELSE NullArray,
     eType |-> eType,
     pcContents |-> IF eType = FT_DIR THEN NullContents ELSE Contents(<<>>)]

\* a mutant of NewNode: the path is copied one component short
NewNodeShortPath(cell, oPPath, oNParent, eType) ==
    [live |-> TRUE, oPPath |-> Path_prefix(oPPath, Path_getDepth(oPPath) - 1),
     oNParent |-> oNParent,
     oChildren |-> IF eType = FT_DIR THEN DynArray_new ELSE NullArray,
     eType |-> eType,
     pcContents |-> IF eType = FT_DIR THEN NullContents ELSE Contents(<<>>)]

\* a mutant of NewNode: every node gets the one-byte contents buffer
NewNodeAlwaysContents(cell, oPPath, oNParent, eType) ==
    [live |-> TRUE, oPPath |-> oPPath, oNParent |-> oNParent,
     oChildren |-> IF eType = FT_DIR THEN DynArray_new ELSE NullArray,
     eType |-> eType,
     pcContents |-> Contents(<<>>)]

\* the struct node that Node_new fills in at address cell
NewNode(cell, oPPath, oNParent, eType) ==
    [live |-> TRUE, oPPath |-> oPPath, oNParent |-> oNParent,
     oChildren |-> IF eType = FT_DIR THEN DynArray_new ELSE NullArray,
     eType |-> eType,
     pcContents |-> IF eType = FT_DIR THEN NullContents ELSE Contents(<<>>)]

\* Node_new: [status, oNResult, nodes]; bFault: an allocation inside fails
Node_new(nodes, oPPath, oNParent, eType, bFault) ==
    LET fail(st) == [status |-> st, oNResult |-> NULL, nodes |-> nodes]
        cell == Malloc(nodes)
    IN  IF Path_getDepth(oPPath) = 0 THEN fail(NO_SUCH_PATH)
        ELSE IF oNParent = NULL /\ Path_getDepth(oPPath) # 1
            THEN fail(NO_SUCH_PATH)
        ELSE IF oNParent # NULL /\
                Path_getDepth(oPPath) #
                    Path_getDepth(Node_getPath(nodes, oNParent)) + 1
            THEN fail(NO_SUCH_PATH)
        ELSE IF oNParent # NULL /\
                Path_prefix(Node_getPath(nodes, oNParent),
                            PathAsDepth(oPPath)) = NULLPATH
            THEN fail(CONFLICTING_PATH)
        ELSE IF oNParent # NULL /\ Node_getType(nodes, oNParent) # FT_DIR
            THEN fail(ABORTED)
        ELSE IF oNParent # NULL /\ Node_hasChild(nodes, oNParent, oPPath)
            THEN fail(ALREADY_IN_TREE)
        ELSE IF bFault \/ cell = NULL THEN fail(MEMORY_ERROR)
        ELSE [status |-> SUCCESS, oNResult |-> cell,
              nodes |-> [nodes EXCEPT ![cell] =
                            NewNode(cell, oPPath, oNParent, eType)]]

\* the node ids of the subtree rooted at oNNode, in the order Node_free
\* releases them (children first)
RECURSIVE SubtreeSeq(_, _)
RECURSIVE SubtreeSeqOf(_, _)
SubtreeSeqOf(nodes, kids) ==
    IF kids = <<>> THEN <<>>
    ELSE SubtreeSeq(nodes, Head(kids)) \o SubtreeSeqOf(nodes, Tail(kids))
SubtreeSeq(nodes, oNNode) ==
    IF oNNode = NULL THEN <<>>
    ELSE (IF Node_getType(nodes, oNNode) = FT_DIR
          THEN SubtreeSeqOf(nodes, Children(nodes, oNNode)) ELSE <<>>)
         \o <<oNNode>>

\* a mutant of Node_free: the node itself is not counted
Node_freeUndercount(nodes, oNNode) ==
    LET gone == SubtreeSeq(nodes, oNNode)
        ids == {gone[i] : i \in 1..Len(gone)}
    IN  [nodes |-> [n \in NodeIds |-> IF n \in ids THEN FreeCell ELSE nodes[n]],
         ulTotalFreed |-> IF gone = <<>> THEN 0 ELSE Len(gone) - 1]

\* a mutant of Node_free: the descendants are freed, the node itself is not
Node_freeKeepsNode(nodes, oNNode) ==
    LET gone == SubtreeSeq(nodes, oNNode)
        ids == {gone[i] : i \in 1..Len(gone)} \ {oNNode}
    IN  [nodes |-> [n \in NodeIds |-> IF n \in ids THEN FreeCell ELSE nodes[n]],
         ulTotalFreed |-> Len(gone)]

\* Node_free: [nodes, ulTotalFreed]
Node_free(nodes, oNNode) ==
    LET gone == SubtreeSeq(nodes, oNNode)
        ids == {gone[i] : i \in 1..Len(gone)}
    IN  [nodes |-> [n \in NodeIds |-> IF n \in ids THEN FreeCell ELSE nodes[n]],
         ulTotalFreed |-> Len(gone)]

(* ---- FT (src/3FT/ft.c) ---- *)
VARIABLES
    bIsInitialized,   \* static boolean bIsInitialized
    oRoot,            \* static Node_T oRoot
    nodes,            \* the heap: node id -> struct node
    ulCount,          \* the node count the FT is specified to maintain
    op,               \* the function called last
    arg,              \* its path argument
    result,           \* what it returned
    lines             \* the lines of the string FT_toString returned

vars == <<bIsInitialized, oRoot, nodes, ulCount, op, arg, result, lines>>

\* the FT state as one value
FT == [bIsInitialized |-> bIsInitialized, oRoot |-> oRoot, nodes |-> nodes]

\* the outcome of a call that changes nothing
Ret(s, st) == [status |-> st, oRoot |-> s.oRoot, nodes |-> s.nodes]

\* the linear scan of oCurr's children for a path equal to oPrefix:
\* the first match, or NULL
FindChild(ns, oCurr, oPrefix) ==
    LET kids == Children(ns, oCurr)
        hits == {j \in 1..Len(kids) :
                    Path_comparePath(Node_getPath(ns, kids[j]), oPrefix) = 0}
    IN  IF hits = {} THEN NULL
        ELSE kids[CHOOSE j \in hits : \A k \in hits : j <= k]

\* The walk of FT_insertDir and FT_insertFile over the proper prefixes of
\* oNewPath, levels i..depth-1, from oCurr: [status, oCurr].  ulBase is the
\* number of allocation requests made before the walk; missing is the code
\* returned for a prefix that is not found.
RECURSIVE InsertWalk(_, _, _, _, _, _, _)
InsertWalk(ns, oCurr, oNewPath, i, ulFault, ulBase, missing) ==
    IF i >= Path_getDepth(oNewPath)
    THEN [status |-> SUCCESS, oCurr |-> oCurr]
    ELSE IF AllocFails(ulFault, ulBase + i)
    THEN [status |-> MEMORY_ERROR, oCurr |-> oCurr]
    ELSE IF Node_getNumChildrenAborts(ns, oCurr)
    THEN [status |-> ABORTED, oCurr |-> oCurr]
    ELSE LET oNext == FindChild(ns, oCurr, Path_prefix(oNewPath, i))
         IN  IF oNext = NULL THEN [status |-> missing, oCurr |-> oCurr]
             ELSE IF Node_getType(ns, oNext) # FT_DIR
             THEN [status |-> NOT_A_DIRECTORY, oCurr |-> oCurr]
             ELSE InsertWalk(ns, oNext, oNewPath, i + 1, ulFault, ulBase,
                             missing)

\* DynArray_add(oCurr->oChildren, oNewNode): the new element goes last
DynArray_add(ns, oCurr, oNewNode) ==
    [ns EXCEPT ![oCurr].oChildren.a = Append(@, oNewNode)]

\* DynArray_removeAt(oParent->oChildren, j) for the first j holding oChild
RemoveChild(ns, oParent, oChild) ==
    LET kids == Children(ns, oParent)
    IN  [ns EXCEPT ![oParent].oChildren.a =
            SelectSeq(kids, LAMBDA c : c # oChild)]

\* a mutant of FT_insertDir: the first node is not stored in oRoot
FT_insertDirForgetsRoot(s, pcPath, ulFault) ==
    LET oNewPath == IF AllocFails(ulFault, 1) THEN NULLPATH
                    ELSE Path_create(pcPath)
        depth == Path_getDepth(oNewPath)
    IN  IF ~s.bIsInitialized THEN Ret(s, INITIALIZATION_ERROR)
        ELSE IF oNewPath = NULLPATH THEN Ret(s, BAD_PATH)
        ELSE IF depth = 0 THEN Ret(s, BAD_PATH)
        ELSE IF s.oRoot = NULL
        THEN IF depth # 1 THEN Ret(s, CONFLICTING_PATH)
             ELSE LET r == Node_new(s.nodes, oNewPath, NULL, FT_DIR,
                                    AllocFails(ulFault, 2))
                  IN  IF r.status # SUCCESS THEN Ret(s, r.status)
                      ELSE [status |-> SUCCESS, oRoot |-> s.oRoot,
                            nodes |-> r.nodes]
        ELSE LET w == InsertWalk(s.nodes, s.oRoot, oNewPath, 1, ulFault, 1,
                                 NO_SUCH_PATH)
             IN  IF w.status # SUCCESS THEN Ret(s, w.status)
                 ELSE IF Node_getNumChildrenAborts(s.nodes, w.oCurr)
                 THEN Ret(s, ABORTED)
                 ELSE IF FindChild(s.nodes, w.oCurr, oNewPath) # NULL
                 THEN Ret(s, ALREADY_IN_TREE)
                 ELSE LET r == Node_new(s.nodes, oNewPath, w.oCurr, FT_DIR,
                                        AllocFails(ulFault, depth + 1))
                      IN  IF r.status # SUCCESS THEN Ret(s, r.status)
                          ELSE IF AllocFails(ulFault, depth + 2)
                          THEN [status |-> MEMORY_ERROR, oRoot |-> s.oRoot,
                                nodes |-> Node_free(r.nodes, r.oNResult).nodes]
                          ELSE [status |-> SUCCESS, oRoot |-> s.oRoot,
                                nodes |-> DynArray_add(r.nodes, w.oCurr,
                                                       r.oNResult)]

FT_insertDir(s, pcPath, ulFault) ==
    LET oNewPath == IF AllocFails(ulFault, 1) THEN NULLPATH
                    ELSE Path_create(pcPath)
        depth == Path_getDepth(oNewPath)
    IN  IF ~s.bIsInitialized THEN Ret(s, INITIALIZATION_ERROR)
        ELSE IF oNewPath = NULLPATH THEN Ret(s, BAD_PATH)
        ELSE IF depth = 0 THEN Ret(s, BAD_PATH)
        ELSE IF s.oRoot = NULL
        THEN IF depth # 1 THEN Ret(s, CONFLICTING_PATH)
             ELSE LET r == Node_new(s.nodes, oNewPath, NULL, FT_DIR,
                                    AllocFails(ulFault, 2))
                  IN  IF r.status # SUCCESS THEN Ret(s, r.status)
                      ELSE [status |-> SUCCESS, oRoot |-> r.oNResult,
                            nodes |-> r.nodes]
        ELSE LET w == InsertWalk(s.nodes, s.oRoot, oNewPath, 1, ulFault, 1,
                                 NO_SUCH_PATH)
             IN  IF w.status # SUCCESS THEN Ret(s, w.status)
                 ELSE IF Node_getNumChildrenAborts(s.nodes, w.oCurr)
                 THEN Ret(s, ABORTED)
                 ELSE IF FindChild(s.nodes, w.oCurr, oNewPath) # NULL
                 THEN Ret(s, ALREADY_IN_TREE)
                 ELSE LET r == Node_new(s.nodes, oNewPath, w.oCurr, FT_DIR,
                                        AllocFails(ulFault, depth + 1))
                      IN  IF r.status # SUCCESS THEN Ret(s, r.status)
                          ELSE IF AllocFails(ulFault, depth + 2)
                          THEN [status |-> MEMORY_ERROR, oRoot |-> s.oRoot,
                                nodes |-> Node_free(r.nodes, r.oNResult).nodes]
                          ELSE [status |-> SUCCESS, oRoot |-> s.oRoot,
                                nodes |-> DynArray_add(r.nodes, w.oCurr,
                                                       r.oNResult)]

FT_init(s) ==
    IF s.bIsInitialized
    THEN [status |-> INITIALIZATION_ERROR, bIsInitialized |-> TRUE,
          oRoot |-> s.oRoot, nodes |-> s.nodes]
    ELSE [status |-> SUCCESS, bIsInitialized |-> TRUE,
          oRoot |-> NULL, nodes |-> s.nodes]

\* a mutant of FT_destroy: the tree is neither freed nor let go of
FT_destroyKeepsTree(s) ==
    IF ~s.bIsInitialized
    THEN [status |-> INITIALIZATION_ERROR, bIsInitialized |-> FALSE,
          oRoot |-> s.oRoot, nodes |-> s.nodes]
    ELSE [status |-> SUCCESS, bIsInitialized |-> FALSE, oRoot |-> s.oRoot,
          nodes |-> s.nodes]

FT_destroy(s) ==
    IF ~s.bIsInitialized
    THEN [status |-> INITIALIZATION_ERROR, bIsInitialized |-> FALSE,
          oRoot |-> s.oRoot, nodes |-> s.nodes]
    ELSE [status |-> SUCCESS, bIsInitialized |-> FALSE, oRoot |-> NULL,
          nodes |-> IF s.oRoot # NULL THEN Node_free(s.nodes, s.oRoot).nodes
                    ELSE s.nodes]

\* The walk of the lookups and removals over the prefixes of oTargetPath,
\* levels i..depth, from oCurr: [status, oCurr, oParent].
NOT_FOUND == "NOT_FOUND"
RECURSIVE LookupWalk(_, _, _, _, _, _)
LookupWalk(ns, oCurr, oParent, oTargetPath, i, ulFault) ==
    IF i > Path_getDepth(oTargetPath)
    THEN [status |-> SUCCESS, oCurr |-> oCurr, oParent |-> oParent]
    ELSE IF AllocFails(ulFault, 1 + i)
    THEN [status |-> MEMORY_ERROR, oCurr |-> oCurr, oParent |-> oParent]
    ELSE IF Node_getNumChildrenAborts(ns, oCurr)
    THEN [status |-> ABORTED, oCurr |-> oCurr, oParent |-> oParent]
    ELSE LET oNext == FindChild(ns, oCurr, Path_prefix(oTargetPath, i))
         IN  IF oNext = NULL
             THEN [status |-> NOT_FOUND, oCurr |-> oCurr, oParent |-> oParent]
             ELSE LookupWalk(ns, oNext, oCurr, oTargetPath, i + 1, ulFault)

\* a mutant of FT_containsDir and FT_containsFile: the test for the empty
\* tree is left out, and Node_getNumChildren is called with NULL
ContainsNoRootTest(s, pcPath, ulFault, eType) ==
    LET oTargetPath == IF AllocFails(ulFault, 1) THEN NULLPATH
                       ELSE Path_create(pcPath)
    IN  IF ~s.bIsInitialized THEN "FALSE"
        ELSE IF oTargetPath = NULLPATH THEN "FALSE"
        ELSE IF Path_getDepth(oTargetPath) = 0 THEN "FALSE"
        ELSE IF s.oRoot = NULL
        THEN IF AllocFails(ulFault, 2) THEN "FALSE" ELSE ABORTED
        ELSE LET w == LookupWalk(s.nodes, s.oRoot, NULL, oTargetPath, 1,
                                 ulFault)
             IN  IF w.status = ABORTED THEN ABORTED
                 ELSE IF w.status # SUCCESS THEN "FALSE"
                 ELSE IF Node_getType(s.nodes, w.oCurr) = eType THEN "TRUE"
                 ELSE "FALSE"

\* FT_containsDir and FT_containsFile: "TRUE", "FALSE" or ABORTED
Contains(s, pcPath, ulFault, eType) ==
    LET oTargetPath == IF AllocFails(ulFault, 1) THEN NULLPATH
                       ELSE Path_create(pcPath)
    IN  IF ~s.bIsInitialized THEN "FALSE"
        ELSE IF oTargetPath = NULLPATH THEN "FALSE"
        ELSE IF Path_getDepth(oTargetPath) = 0 THEN "FALSE"
        ELSE IF s.oRoot = NULL THEN "FALSE"
        ELSE LET w == LookupWalk(s.nodes, s.oRoot, NULL, oTargetPath, 1,
                                 ulFault)
             IN  IF w.status = ABORTED THEN ABORTED
                 ELSE IF w.status # SUCCESS THEN "FALSE"
                 ELSE IF Node_getType(s.nodes, w.oCurr) = eType THEN "TRUE"
                 ELSE "FALSE"

FT_containsDir(s, pcPath, ulFault) == Contains(s, pcPath, ulFault, FT_DIR)

FT_containsFile(s, pcPath, ulFault) == Contains(s, pcPath, ulFault, FT_FILE)

\* the outcome of a removal that changes nothing
RetRm(s, st) ==
    [status |-> st, oRoot |-> s.oRoot, nodes |-> s.nodes, ulFreed |-> 0]

\* Steps 3 to 6 of FT_rmDir and FT_rmFile: walk to the target, check its
\* type, unlink it from its parent and free it
RemoveAt(s, oTargetPath, ulFault, eType, wrongType) ==
    LET w == LookupWalk(s.nodes, s.oRoot, NULL, oTargetPath, 1, ulFault)
    IN  IF w.status = NOT_FOUND THEN RetRm(s, NO_SUCH_PATH)
        ELSE IF w.status # SUCCESS THEN RetRm(s, w.status)
        ELSE IF Node_getType(s.nodes, w.oCurr) # eType
        THEN RetRm(s, wrongType)
        ELSE IF Node_getNumChildrenAborts(s.nodes, w.oParent)
        THEN RetRm(s, ABORTED)
        ELSE LET f == Node_free(RemoveChild(s.nodes, w.oParent, w.oCurr),
                                w.oCurr)
             IN  [status |-> SUCCESS, oRoot |-> s.oRoot, nodes |-> f.nodes,
                  ulFreed |-> f.ulTotalFreed]

\* a mutant of FT_rmDir: the root reference is kept after the root is freed
FT_rmDirKeepsRoot(s, pcPath, ulFault) ==
    LET oTargetPath == IF AllocFails(ulFault, 1) THEN NULLPATH
                       ELSE Path_create(pcPath)
    IN  IF ~s.bIsInitialized THEN RetRm(s, INITIALIZATION_ERROR)
        ELSE IF oTargetPath = NULLPATH THEN RetRm(s, BAD_PATH)
        ELSE IF Path_getDepth(oTargetPath) = 0 THEN RetRm(s, BAD_PATH)
        ELSE IF s.oRoot = NULL THEN RetRm(s, NO_SUCH_PATH)
        ELSE IF Path_comparePath(Node_getPath(s.nodes, s.oRoot),
                                 oTargetPath) = 0
        THEN IF Node_getType(s.nodes, s.oRoot) # FT_DIR
             THEN RetRm(s, NOT_A_DIRECTORY)
             ELSE LET f == Node_free(s.nodes, s.oRoot)
                  IN  [status |-> SUCCESS, oRoot |-> s.oRoot,
                       nodes |-> f.nodes, ulFreed |-> f.ulTotalFreed]
        ELSE RemoveAt(s, oTargetPath, ulFault, FT_DIR, NOT_A_DIRECTORY)

FT_rmDir(s, pcPath, ulFault) ==
    LET oTargetPath == IF AllocFails(ulFault, 1) THEN NULLPATH
                       ELSE Path_create(pcPath)
    IN  IF ~s.bIsInitialized THEN RetRm(s, INITIALIZATION_ERROR)
        ELSE IF oTargetPath = NULLPATH THEN RetRm(s, BAD_PATH)
        ELSE IF Path_getDepth(oTargetPath) = 0 THEN RetRm(s, BAD_PATH)
        ELSE IF s.oRoot = NULL THEN RetRm(s, NO_SUCH_PATH)
        ELSE IF Path_comparePath(Node_getPath(s.nodes, s.oRoot),
                                 oTargetPath) = 0
        THEN IF Node_getType(s.nodes, s.oRoot) # FT_DIR
             THEN RetRm(s, NOT_A_DIRECTORY)
             ELSE LET f == Node_free(s.nodes, s.oRoot)
                  IN  [status |-> SUCCESS, oRoot |-> NULL, nodes |-> f.nodes,
                       ulFreed |-> f.ulTotalFreed]
        ELSE RemoveAt(s, oTargetPath, ulFault, FT_DIR, NOT_A_DIRECTORY)

FT_rmFile(s, pcPath, ulFault) ==
    LET oTargetPath == IF AllocFails(ulFault, 1) THEN NULLPATH
                       ELSE Path_create(pcPath)
    IN  IF ~s.bIsInitialized THEN RetRm(s, INITIALIZATION_ERROR)
        ELSE IF oTargetPath = NULLPATH THEN RetRm(s, BAD_PATH)
        ELSE IF Path_getDepth(oTargetPath) = 0 THEN RetRm(s, BAD_PATH)
        ELSE IF s.oRoot = NULL THEN RetRm(s, NO_SUCH_PATH)
        ELSE IF Path_comparePath(Node_getPath(s.nodes, s.oRoot),
                                 oTargetPath) = 0
        THEN IF Node_getType(s.nodes, s.oRoot) = FT_FILE
             THEN RetRm(s, NOT_A_FILE)
             ELSE RetRm(s, CONFLICTING_PATH)
        ELSE RemoveAt(s, oTargetPath, ulFault, FT_FILE, NOT_A_FILE)

(* ---- file contents ---- *)
MaxLen == 1             \* longest byte buffer handed to the FT
Bytes == 0..1           \* 0 is the terminating byte of a C string
Buffers == UNION {[1..n -> Bytes] : n \in 0..MaxLen}
\* what a read past the end of an unterminated buffer meets: the bytes up
\* to the next 0, or a fault
Overruns ==
    {[crash |-> TRUE, tail |-> <<>>]} \cup
    {[crash |-> FALSE, tail |-> t] : t \in {<<>>, <<1>>}}

\* the bytes of buf before its first 0, or none such
HasNul(buf) == \E i \in 1..Len(buf) : buf[i] = 0
UpToNul(buf) ==
    SubSeq(buf, 1, (CHOOSE i \in 1..Len(buf) :
                        buf[i] = 0 /\ \A j \in 1..(i - 1) : buf[j] # 0) - 1)

\* a mutant of Node_setContents: the old buffer is freed before the new one
\* is allocated
Node_setContentsFreesFirst(ns, oNNode, pcContents, bFault, ub) ==
    IF Node_getType(ns, oNNode) # FT_FILE
    THEN [ok |-> FALSE, nodes |-> ns, crash |-> FALSE]
    ELSE IF ~pcContents.null /\ ~HasNul(pcContents.s) /\ ub.crash
    THEN [ok |-> FALSE, nodes |-> ns, crash |-> TRUE]
    ELSE IF bFault
    THEN [ok |-> FALSE, crash |-> FALSE,
          nodes |-> [ns EXCEPT ![oNNode].pcContents = NullContents]]
    ELSE [ok |-> TRUE, crash |-> FALSE,
          nodes |-> [ns EXCEPT ![oNNode].pcContents =
             Contents(IF pcContents.null THEN <<>>
                      ELSE IF HasNul(pcContents.s) THEN UpToNul(pcContents.s)
                      ELSE pcContents.s \o ub.tail)]]

\* Node_setContents: [ok, nodes, crash].  pcContents is a buffer or
\* NullContents; strlen and strcpy read it up to its first 0 byte, and past
\* its end when it holds none.
Node_setContents(ns, oNNode, pcContents, bFault, ub) ==
    IF Node_getType(ns, oNNode) # FT_FILE
    THEN [ok |-> FALSE, nodes |-> ns, crash |-> FALSE]
    ELSE IF ~pcContents.null /\ ~HasNul(pcContents.s) /\ ub.crash
    THEN [ok |-> FALSE, nodes |-> ns, crash |-> TRUE]
    ELSE IF bFault THEN [ok |-> FALSE, nodes |-> ns, crash |-> FALSE]
    ELSE [ok |-> TRUE, crash |-> FALSE,
          nodes |-> [ns EXCEPT ![oNNode].pcContents =
             Contents(IF pcContents.null THEN <<>>
                      ELSE IF HasNul(pcContents.s) THEN UpToNul(pcContents.s)
                      ELSE pcContents.s \o ub.tail)]]

Node_getContents(ns, oNNode) ==
    IF Node_getType(ns, oNNode) # FT_FILE THEN NullContents
    ELSE ns[oNNode].pcContents

\* Steps 1 to 5 of FT_insertFile: [status, oRoot, nodes, oCurr, oNewNode,
\* ulNext]; on SUCCESS oNewNode is the new, still unlinked File node under
\* oCurr and ulNext numbers the next allocation request
InsertFileNode(s, pcPath, ulFault) ==
    LET oNewPath == IF AllocFails(ulFault, 1) THEN NULLPATH
                    ELSE Path_create(pcPath)
        depth == Path_getDepth(oNewPath)
        out(st, rt, ns, c, n, k) ==
            [status |-> st, oRoot |-> rt, nodes |-> ns, oCurr |-> c,
             oNewNode |-> n, ulNext |-> k]
        fail(st) == out(st, s.oRoot, s.nodes, NULL, NULL, 0)
        \* Steps 3 to 5, with the root rt present in heap ns
        at(rt, ns, ulBase) ==
            LET w == InsertWalk(ns, rt, oNewPath, 1, ulFault, ulBase,
                                CONFLICTING_PATH)
            IN  IF w.status # SUCCESS THEN out(w.status, rt, ns, NULL, NULL, 0)
                ELSE IF Node_getNumChildrenAborts(ns, w.oCurr)
                THEN out(ABORTED, rt, ns, NULL, NULL, 0)
                ELSE IF FindChild(ns, w.oCurr, oNewPath) # NULL
                THEN out(ALREADY_IN_TREE, rt, ns, NULL, NULL, 0)
                ELSE LET r == Node_new(ns, oNewPath, w.oCurr, FT_FILE,
                                       AllocFails(ulFault, ulBase + depth))
                     IN  IF r.status # SUCCESS
                         THEN out(r.status, rt, ns, NULL, NULL, 0)
                         ELSE out(SUCCESS, rt, r.nodes, w.oCurr, r.oNResult,
                                  ulBase + depth + 1)
    IN  IF ~s.bIsInitialized THEN fail(INITIALIZATION_ERROR)
        ELSE IF oNewPath = NULLPATH THEN fail(BAD_PATH)
        ELSE IF depth = 0 THEN fail(BAD_PATH)
        ELSE IF s.oRoot = NULL /\ depth = 1 THEN fail(CONFLICTING_PATH)
        ELSE IF s.oRoot = NULL
        THEN IF AllocFails(ulFault, 2) THEN fail(MEMORY_ERROR)
             ELSE LET r == Node_new(s.nodes, Path_prefix(oNewPath, 1), NULL,
                                    FT_DIR, AllocFails(ulFault, 3))
                  IN  IF r.status # SUCCESS THEN fail(r.status)
                      ELSE at(r.oNResult, r.nodes, 3)
        ELSE at(s.oRoot, s.nodes, 1)

\* Steps 6 and 7 of FT_insertFile, after InsertFileNode a succeeded:
\* [status, oRoot, nodes]
InsertFileStore(a, pvContents, ulLength, ulFault, ub) ==
    LET freed == Node_free(a.nodes, a.oNewNode).nodes
        copied == ulLength > 0 /\ ~pvContents.null
        c == Node_setContents(a.nodes, a.oNewNode,
                IF copied THEN Contents(SubSeq(pvContents.s, 1, ulLength))
                ELSE NullContents,
                AllocFails(ulFault, a.ulNext + 1), ub)
    IN  IF ulLength > 0 /\ AllocFails(ulFault, a.ulNext)
        THEN [status |-> MEMORY_ERROR, oRoot |-> a.oRoot, nodes |-> freed]
        ELSE IF c.crash
        THEN [status |-> ABORTED, oRoot |-> a.oRoot, nodes |-> a.nodes]
        ELSE IF copied /\ ~c.ok
        THEN [status |-> MEMORY_ERROR, oRoot |-> a.oRoot, nodes |-> freed]
        ELSE IF AllocFails(ulFault, a.ulNext + 2)
        THEN [status |-> MEMORY_ERROR, oRoot |-> a.oRoot, nodes |-> freed]
        ELSE [status |-> SUCCESS, oRoot |-> a.oRoot,
              nodes |-> DynArray_add(c.nodes, a.oCurr, a.oNewNode)]

FT_insertFile(s, pcPath, pvContents, ulLength, ulFault, ub) ==
    LET a == InsertFileNode(s, pcPath, ulFault)
    IN  IF a.status # SUCCESS
        THEN [status |-> a.status, oRoot |-> a.oRoot, nodes |-> a.nodes]
        ELSE InsertFileStore(a, pvContents, ulLength, ulFault, ub)

\* Steps 1 to 3 of FT_replaceFileContents: [status, oCurr, ulNext]; status
\* is SUCCESS with oCurr the File node found, "NULL" or ABORTED
ReplaceFind(s, pcPath, ulFault) ==
    LET oTargetPath == IF AllocFails(ulFault, 1) THEN NULLPATH
                       ELSE Path_create(pcPath)
        depth == Path_getDepth(oTargetPath)
        none(st) == [status |-> st, oCurr |-> NULL, ulNext |-> 0]
    IN  IF ~s.bIsInitialized THEN none("NULL")
        ELSE IF oTargetPath = NULLPATH THEN none("NULL")
        ELSE IF depth = 0 THEN none("NULL")
        ELSE IF s.oRoot = NULL THEN none("NULL")
        ELSE LET w == LookupWalk(s.nodes, s.oRoot, NULL, oTargetPath, 1,
                                 ulFault)
             IN  IF w.status = ABORTED THEN none(ABORTED)
                 ELSE IF w.status # SUCCESS THEN none("NULL")
                 ELSE IF Node_getType(s.nodes, w.oCurr) # FT_FILE
                 THEN none("NULL")
                 ELSE [status |-> SUCCESS, oCurr |-> w.oCurr,
                       ulNext |-> depth + 2]

\* Steps 4 and 5 of FT_replaceFileContents on the File node a.oCurr:
\* [status, oRoot, nodes, old, freed]; status is "NULL", "OLD" or ABORTED,
\* old the buffer the returned pointer pointed to before the call, freed
\* whether Node_setContents has freed that buffer
ReplaceStore(s, a, pvNewContents, ulNewLength, ulFault, ub) ==
    LET copied == ulNewLength > 0 /\ ~pvNewContents.null
        none(st) == [status |-> st, oRoot |-> s.oRoot, nodes |-> s.nodes,
                     old |-> NullContents, freed |-> FALSE]
        c == Node_setContents(s.nodes, a.oCurr,
                IF copied THEN Contents(SubSeq(pvNewContents.s, 1, ulNewLength))
                ELSE NullContents,
                AllocFails(ulFault, IF copied THEN a.ulNext + 1 ELSE a.ulNext),
                ub)
    IN  IF copied /\ AllocFails(ulFault, a.ulNext) THEN none("NULL")
        ELSE IF c.crash THEN none(ABORTED)
        ELSE IF ~c.ok THEN none("NULL")
        ELSE [status |-> "OLD", oRoot |-> s.oRoot, nodes |-> c.nodes,
              old |-> Node_getContents(s.nodes, a.oCurr), freed |-> TRUE]

FT_replaceFileContents(s, pcPath, pvNewContents, ulNewLength, ulFault, ub) ==
    LET a == ReplaceFind(s, pcPath, ulFault)
    IN  IF a.status # SUCCESS
        THEN [status |-> a.status, oRoot |-> s.oRoot, nodes |-> s.nodes,
              old |-> NullContents, freed |-> FALSE]
        ELSE ReplaceStore(s, a, pvNewContents, ulNewLength, ulFault, ub)

(* ---- FT_toString ---- *)
\* a mutant of Node_toString: the test of the node's type is inverted
Node_toStringSwapped(ns, oNNode) ==
    [path |-> Node_getPath(ns, oNNode),
     type |-> IF Node_getType(ns, oNNode) = FT_FILE THEN "dir" ELSE "file"]

\* Node_toString: "<path> [dir]" or "<path> [file]"
Node_toString(ns, oNNode) ==
    [path |-> Node_getPath(ns, oNNode),
     type |-> IF Node_getType(ns, oNNode) = FT_FILE THEN "file" ELSE "dir"]

\* qsort with compareNodes: the node ids of q in ascending path order
RECURSIVE SortNodes(_, _)
SortNodes(ns, q) ==
    IF q = <<>> THEN <<>>
    ELSE LET least == CHOOSE i \in 1..Len(q) : \A j \in 1..Len(q) :
                 \/ Path_comparePath(Node_getPath(ns, q[i]),
                                     Node_getPath(ns, q[j])) < 0
                 \/ (Path_comparePath(Node_getPath(ns, q[i]),
                                      Node_getPath(ns, q[j])) = 0 /\ i <= j)
         IN  <<q[least]>> \o
             SortNodes(ns, SubSeq(q, 1, least - 1) \o
                           SubSeq(q, least + 1, Len(q)))

\* FT_traverseToString: [ok, aborted, lines]
RECURSIVE FT_traverseToString(_, _)
RECURSIVE TraverseAll(_, _)
TraverseAll(ns, q) ==
    IF q = <<>> THEN [ok |-> TRUE, aborted |-> FALSE, lines |-> <<>>]
    ELSE LET h == FT_traverseToString(ns, Head(q))
         IN  IF ~h.ok THEN h
             ELSE LET r == TraverseAll(ns, Tail(q))
                  IN  [ok |-> r.ok, aborted |-> r.aborted,
                       lines |-> h.lines \o r.lines]
FT_traverseToString(ns, oNode) ==
    IF Node_getNumChildrenAborts(ns, oNode)
    THEN [ok |-> FALSE, aborted |-> TRUE, lines |-> <<Node_toString(ns, oNode)>>]
    ELSE LET kids == Children(ns, oNode)
             fileChildren ==
                 SelectSeq(kids, LAMBDA c : Node_getType(ns, c) = FT_FILE)
             dirChildren ==
                 SelectSeq(kids, LAMBDA c : Node_getType(ns, c) # FT_FILE)
             r == TraverseAll(ns, SortNodes(ns, fileChildren) \o
                                  SortNodes(ns, dirChildren))
         IN  [ok |-> r.ok, aborted |-> r.aborted,
              lines |-> <<Node_toString(ns, oNode)>> \o r.lines]

\* FT_toString: [status, lines]; status is "NULL", "STRING" or ABORTED.
\* Once an allocation request has failed every later one fails too, so
\* any fault ends in NULL.
FT_toString(s, bFault) ==
    IF ~s.bIsInitialized \/ s.oRoot = NULL
    THEN [status |-> "NULL", lines |-> <<>>]
    ELSE LET r == FT_traverseToString(s.nodes, s.oRoot)
         IN  IF r.aborted THEN [status |-> ABORTED, lines |-> <<>>]
             ELSE IF bFault THEN [status |-> "NULL", lines |-> <<>>]
             ELSE [status |-> "STRING", lines |-> r.lines]

(* ---- FT_stat and FT_getFileContents ---- *)
\* the allocation requests of a lookup that made one more request than
\* FT_containsDir before its walk
Shifted(ulFault) == IF ulFault = 0 THEN 0 ELSE ulFault - 1

\* a mutant of FT_stat: the test of bIsInitialized is left out
FT_statUnchecked(s, pcPath, ulFault, bIsFile0, ulSize0) ==
    LET oTargetPath == IF AllocFails(ulFault, 1) THEN NULLPATH
                       ELSE Path_create(pcPath)
        out(st) == [status |-> st, bIsFile |-> bIsFile0, ulSize |-> ulSize0]
    IN  IF oTargetPath = NULLPATH THEN out(BAD_PATH)
        ELSE IF Path_getDepth(oTargetPath) = 0 THEN out(BAD_PATH)
        ELSE IF s.oRoot = NULL THEN out(NO_SUCH_PATH)
        ELSE IF AllocFails(ulFault, 2) \/
                ~Path_isPrefix(Node_getPath(s.nodes, s.oRoot), oTargetPath)
        THEN out(CONFLICTING_PATH)
        ELSE LET w == LookupWalk(s.nodes, s.oRoot, NULL, oTargetPath, 1,
                                 Shifted(ulFault))
             IN  IF w.status = ABORTED THEN out(ABORTED)
                 ELSE IF w.status = MEMORY_ERROR THEN out(MEMORY_ERROR)
                 ELSE IF w.status # SUCCESS THEN out(NO_SUCH_PATH)
                 ELSE IF Node_getType(s.nodes, w.oCurr) = FT_FILE
                 THEN [status |-> SUCCESS, bIsFile |-> TRUE,
                       ulSize |-> Len(Node_getContents(s.nodes, w.oCurr).s)]
                 ELSE [status |-> SUCCESS, bIsFile |-> FALSE,
                       ulSize |-> ulSize0]

\* a mutant of FT_stat: the outputs are cleared on entry
FT_statClearsOutputs(s, pcPath, ulFault, bIsFile0, ulSize0) ==
    LET oTargetPath == IF AllocFails(ulFault, 1) THEN NULLPATH
                       ELSE Path_create(pcPath)
        out(st) == [status |-> st, bIsFile |-> FALSE, ulSize |-> 0]
    IN  IF ~s.bIsInitialized THEN out(INITIALIZATION_ERROR)
        ELSE IF oTargetPath = NULLPATH THEN out(BAD_PATH)
        ELSE IF Path_getDepth(oTargetPath) = 0 THEN out(BAD_PATH)
        ELSE IF s.oRoot = NULL THEN out(NO_SUCH_PATH)
        ELSE IF AllocFails(ulFault, 2) \/
                ~Path_isPrefix(Node_getPath(s.nodes, s.oRoot), oTargetPath)
        THEN out(CONFLICTING_PATH)
        ELSE LET w == LookupWalk(s.nodes, s.oRoot, NULL, oTargetPath, 1,
                                 Shifted(ulFault))
             IN  IF w.status = ABORTED THEN out(ABORTED)
                 ELSE IF w.status = MEMORY_ERROR THEN out(MEMORY_ERROR)
                 ELSE IF w.status # SUCCESS THEN out(NO_SUCH_PATH)
                 ELSE IF Node_getType(s.nodes, w.oCurr) = FT_FILE
                 THEN [status |-> SUCCESS, bIsFile |-> TRUE,
                       ulSize |-> Len(Node_getContents(s.nodes, w.oCurr).s)]
                 ELSE [status |-> SUCCESS, bIsFile |-> FALSE,
                       ulSize |-> 0]

\* FT_stat: [status, bIsFile, ulSize]; bIsFile and ulSize are what
\* *pbIsFile and *pulSize hold after the call, bIsFile0 and ulSize0 what
\* they held before
FT_stat(s, pcPath, ulFault, bIsFile0, ulSize0) ==
    LET oTargetPath == IF AllocFails(ulFault, 1) THEN NULLPATH
                       ELSE Path_create(pcPath)
        out(st) == [status |-> st, bIsFile |-> bIsFile0, ulSize |-> ulSize0]
    IN  IF ~s.bIsInitialized THEN out(INITIALIZATION_ERROR)
        ELSE IF oTargetPath = NULLPATH THEN out(BAD_PATH)
        ELSE IF Path_getDepth(oTargetPath) = 0 THEN out(BAD_PATH)
        ELSE IF s.oRoot = NULL THEN out(NO_SUCH_PATH)
        ELSE IF AllocFails(ulFault, 2) \/
                ~Path_isPrefix(Node_getPath(s.nodes, s.oRoot), oTargetPath)
        THEN out(CONFLICTING_PATH)
        ELSE LET w == LookupWalk(s.nodes, s.oRoot, NULL, oTargetPath, 1,
                                 Shifted(ulFault))
             IN  IF w.status = ABORTED THEN out(ABORTED)
                 ELSE IF w.status = MEMORY_ERROR THEN out(MEMORY_ERROR)
                 ELSE IF w.status # SUCCESS THEN out(NO_SUCH_PATH)
                 ELSE IF Node_getType(s.nodes, w.oCurr) = FT_FILE
                 THEN [status |-> SUCCESS, bIsFile |-> TRUE,
                       ulSize |-> Len(Node_getContents(s.nodes, w.oCurr).s)]
                 ELSE [status |-> SUCCESS, bIsFile |-> FALSE,
                       ulSize |-> ulSize0]

\* FT_getFileContents: [status, contents]; status is "NULL", "CONTENTS" or
\* ABORTED
FT_getFileContents(s, pcPath, ulFault) ==
    LET oTargetPath == IF AllocFails(ulFault, 1) THEN NULLPATH
                       ELSE Path_create(pcPath)
        none(st) == [status |-> st, contents |-> NullContents]
    IN  IF ~s.bIsInitialized THEN none("NULL")
        ELSE IF oTargetPath = NULLPATH THEN none("NULL")
        ELSE IF Path_getDepth(oTargetPath) = 0 THEN none("NULL")
        ELSE IF s.oRoot = NULL THEN none("NULL")
        ELSE LET w == LookupWalk(s.nodes, s.oRoot, NULL, oTargetPath, 1,
                                 ulFault)
             IN  IF w.status = ABORTED THEN none(ABORTED)
                 ELSE IF w.status # SUCCESS THEN none("NULL")
                 ELSE IF Node_getType(s.nodes, w.oCurr) # FT_FILE
                 THEN none("NULL")
                 ELSE [status |-> "CONTENTS",
                       contents |-> Node_getContents(s.nodes, w.oCurr)]

(* ---- the Checker (src/unnamed/part_000) ---- *)

\* Path_getSharedPrefixDepth: the number of leading components two paths
\* have in common
RECURSIVE Path_getSharedPrefixDepth(_, _)
Path_getSharedPrefixDepth(oPPath1, oPPath2) ==
    IF oPPath1 = <<>> \/ oPPath2 = <<>> \/ Head(oPPath1) # Head(oPPath2)
    THEN 0
    ELSE 1 + Path_getSharedPrefixDepth(Tail(oPPath1), Tail(oPPath2))

\* Node_getChild: [status, oNResult], or ABORTED when oNParent is a File
Node_getChild(ns, oNParent, ulChildID) ==
    IF Node_getNumChildrenAborts(ns, oNParent)
    THEN [status |-> ABORTED, oNResult |-> NULL]
    ELSE IF ulChildID >= Len(Children(ns, oNParent))
    THEN [status |-> NO_SUCH_PATH, oNResult |-> NULL]
    ELSE [status |-> SUCCESS,
          oNResult |-> Children(ns, oNParent)[ulChildID + 1]]

\* the loop over adjacent children, for (i = 0; i < ulNumChildren - 1; i++),
\* from index i on: TRUE when it runs to its end
RECURSIVE OrderLoop(_, _, _)
OrderLoop(ns, oNNode, i) ==
    IF ~(i < SizeT(Node_getNumChildren(ns, oNNode) - 1)) THEN TRUE
    ELSE LET one == Node_getChild(ns, oNNode, i)
             two == Node_getChild(ns, oNNode, i + 1)
         IN  IF one.status # SUCCESS \/ one.oNResult = NULL \/
                two.status # SUCCESS \/ two.oNResult = NULL
             THEN FALSE
             ELSE IF Path_comparePath(Node_getPath(ns, one.oNResult),
                                      Node_getPath(ns, two.oNResult)) > 0
             THEN FALSE
             ELSE OrderLoop(ns, oNNode, i + 1)

\* a mutant of ParentLoop: the back-reference of a child is not looked at
ParentLoopSkipped(ns, oNNode) ==
    \A i \in 1..Len(Children(ns, oNNode)) : Children(ns, oNNode)[i] # NULL

\* the loop that fetches every child and compares its parent with oNNode
ParentLoop(ns, oNNode) ==
    \A i \in 1..Len(Children(ns, oNNode)) :
        /\ Children(ns, oNNode)[i] # NULL
        /\ Node_getParent(ns, Children(ns, oNNode)[i]) = oNNode

\* the loop over the pairs of children: TRUE when no two paths are equal
DuplicateLoop(ns, oNNode) ==
    \A i, j \in 1..Len(Children(ns, oNNode)) :
        i < j => Path_comparePath(Node_getPath(ns, Children(ns, oNNode)[i]),
                                  Node_getPath(ns, Children(ns, oNNode)[j])) # 0

\* CheckerDT_Node_isValid: "TRUE", "FALSE" or ABORTED
CheckerDT_Node_isValid(ns, oNNode) ==
    IF oNNode = NULL THEN "FALSE"
    ELSE IF Node_getParent(ns, oNNode) # NULL /\
            Path_getSharedPrefixDepth(Node_getPath(ns, oNNode),
                Node_getPath(ns, Node_getParent(ns, oNNode))) #
            SizeT(Path_getDepth(Node_getPath(ns, oNNode)) - 1)
    THEN "FALSE"
    ELSE IF Node_getNumChildrenAborts(ns, oNNode) THEN ABORTED
    ELSE IF ~ParentLoop(ns, oNNode) THEN "FALSE"
    ELSE IF ~DuplicateLoop(ns, oNNode) THEN "FALSE"
    ELSE IF ~OrderLoop(ns, oNNode, 0) THEN "FALSE"
    ELSE "TRUE"

\* CheckerDT_treeCheck: [status, ulTraverseCount]; status is "TRUE", "FALSE" or
\* ABORTED, ulTraverseCount the value of *pulTraverseCount after the call.  fuel bounds the
\* descent in a children relation that is not a tree.
RECURSIVE CheckerDT_treeCheck(_, _, _, _)
RECURSIVE TreeCheckFrom(_, _, _, _, _)
CheckerDT_treeCheck(ns, oNNode, ulTraverseCount, fuel) ==
    IF oNNode = NULL THEN [status |-> "TRUE", ulTraverseCount |-> ulTraverseCount]
    ELSE IF CheckerDT_Node_isValid(ns, oNNode) # "TRUE"
    THEN [status |-> CheckerDT_Node_isValid(ns, oNNode), ulTraverseCount |-> ulTraverseCount]
    ELSE TreeCheckFrom(ns, oNNode, 0, ulTraverseCount + 1, fuel)
TreeCheckFrom(ns, oNNode, i, ulTraverseCount, fuel) ==
    IF ~(i < Node_getNumChildren(ns, oNNode))
    THEN [status |-> "TRUE", ulTraverseCount |-> ulTraverseCount]
    ELSE IF fuel = 0 THEN [status |-> ABORTED, ulTraverseCount |-> ulTraverseCount]
    ELSE LET c == CheckerDT_treeCheck(ns, Children(ns, oNNode)[i + 1],
                                      ulTraverseCount, fuel - 1)
         IN  IF c.status # "TRUE" THEN c
             ELSE TreeCheckFrom(ns, oNNode, i + 1, c.ulTraverseCount, fuel)

\* a mutant of CheckerDT_isValid: before FT_init the count is not looked at
CheckerDT_isValidAnyCount(b, ns, oNRoot, n) ==
    IF ~b THEN (IF oNRoot # NULL THEN "FALSE" ELSE "TRUE")
    ELSE IF SizeT(n) = 0 /\ oNRoot # NULL THEN "FALSE"
    ELSE IF SizeT(n) > 0 /\ oNRoot = NULL THEN "FALSE"
    ELSE LET c == CheckerDT_treeCheck(ns, oNRoot, 0, Cardinality(DOMAIN ns))
         IN  IF c.status # "TRUE" THEN c.status
             ELSE IF c.ulTraverseCount # SizeT(n) THEN "FALSE"
             ELSE "TRUE"

\* CheckerDT_isValid: "TRUE", "FALSE" or ABORTED
CheckerDT_isValid(b, ns, oNRoot, n) ==
    IF ~b THEN (IF SizeT(n) # 0 THEN "FALSE"
                ELSE IF oNRoot # NULL THEN "FALSE" ELSE "TRUE")
    ELSE IF SizeT(n) = 0 /\ oNRoot # NULL THEN "FALSE"
    ELSE IF SizeT(n) > 0 /\ oNRoot = NULL THEN "FALSE"
    ELSE LET c == CheckerDT_treeCheck(ns, oNRoot, 0, Cardinality(DOMAIN ns))
         IN  IF c.status # "TRUE" THEN c.status
             ELSE IF c.ulTraverseCount # SizeT(n) THEN "FALSE"
             ELSE "TRUE"

(* ---- the node count ---- *)
\* ft.c keeps no node count; ulCount follows the rule the FT is specified
\* with: one more for every successful insertion, less the nodes freed by
\* every successful removal, zero after init and destroy.
CountAfterInsert(n, st) == IF st = SUCCESS THEN n + 1 ELSE n
CountAfterRemove(n, st, ulFreed) == IF st = SUCCESS THEN n - ulFreed ELSE n
CountAfterReset(n, st) == IF st = SUCCESS THEN 0 ELSE n

(* ---- the state machine: one action per FT function ---- *)
Faults == 0..MaxFault
ContentArgs == {NullContents} \cup {Contents(b) : b \in Buffers}
Lengths(pv) == IF pv.null THEN 0..MaxLen ELSE 0..Len(pv.s)

\* no function is called after the process was aborted
Alive == result # ABORTED

\* the call returns: the new FT state and what the caller saw
Return(name, pcPath, st, b, r, ns, n, ls) ==
    /\ Alive
    /\ bIsInitialized' = b
    /\ oRoot' = r
    /\ nodes' = ns
    /\ ulCount' = n
    /\ op' = name
    /\ arg' = pcPath
    /\ result' = st
    /\ lines' = ls

Init ==
    /\ bIsInitialized = FALSE
    /\ oRoot = NULL
    /\ nodes = [n \in NodeIds |-> FreeCell]
    /\ ulCount = 0
    /\ op = "none"
    /\ arg = <<>>
    /\ result = "none"
    /\ lines = <<>>

InitFT ==
    LET o == FT_init(FT)
    IN  Return("init", <<>>, o.status, o.bIsInitialized, o.oRoot, o.nodes,
               CountAfterReset(ulCount, o.status), <<>>)

DestroyFT ==
    LET o == FT_destroy(FT)
    IN  Return("destroy", <<>>, o.status, o.bIsInitialized, o.oRoot, o.nodes,
               CountAfterReset(ulCount, o.status), <<>>)

InsertDir ==
    \E p \in PathStrings, f \in Faults :
        LET o == FT_insertDir(FT, p, f)
        IN  Return("insertDir", p, o.status, bIsInitialized, o.oRoot, o.nodes,
                   CountAfterInsert(ulCount, o.status), <<>>)

\* the contents arguments are read only once the File node exists
InsertFile ==
    \E p \in PathStrings, f \in Faults :
        LET a == InsertFileNode(FT, p, f)
        IN  IF a.status # SUCCESS
            THEN Return("insertFile", p, a.status, bIsInitialized, a.oRoot,
                        a.nodes, ulCount, <<>>)
            ELSE \E pv \in ContentArgs, ub \in Overruns :
                   \E len \in Lengths(pv) :
                     LET o == InsertFileStore(a, pv, len, f, ub)
                     IN  Return("insertFile", p, o.status, bIsInitialized,
                                o.oRoot, o.nodes,
                                CountAfterInsert(ulCount, o.status), <<>>)

RmDir ==
    \E p \in PathStrings, f \in Faults :
        LET o == FT_rmDir(FT, p, f)
        IN  /\ CountAfterRemove(ulCount, o.status, o.ulFreed) >= 0 - MaxDrift
            /\ Return("rmDir", p, o.status, bIsInitialized, o.oRoot, o.nodes,
                      CountAfterRemove(ulCount, o.status, o.ulFreed), <<>>)

RmFile ==
    \E p \in PathStrings, f \in Faults :
        LET o == FT_rmFile(FT, p, f)
        IN  /\ CountAfterRemove(ulCount, o.status, o.ulFreed) >= 0 - MaxDrift
            /\ Return("rmFile", p, o.status, bIsInitialized, o.oRoot, o.nodes,
                      CountAfterRemove(ulCount, o.status, o.ulFreed), <<>>)

ReplaceFileContents ==
    \E p \in PathStrings, f \in Faults :
        LET a == ReplaceFind(FT, p, f)
        IN  IF a.status # SUCCESS
            THEN Return("replaceFileContents", p, a.status, bIsInitialized,
                        oRoot, nodes, ulCount, <<>>)
            ELSE \E pv \in ContentArgs, ub \in Overruns :
                   \E len \in Lengths(pv) :
                     LET o == ReplaceStore(FT, a, pv, len, f, ub)
                     IN  Return("replaceFileContents", p, o.status,
                                bIsInitialized, o.oRoot, o.nodes, ulCount,
                                <<>>)

ContainsDir ==
    \E p \in PathStrings, f \in Faults :
        Return("containsDir", p, FT_containsDir(FT, p, f), bIsInitialized,
               oRoot, nodes, ulCount, <<>>)

ContainsFile ==
    \E p \in PathStrings, f \in Faults :
        Return("containsFile", p, FT_containsFile(FT, p, f), bIsInitialized,
               oRoot, nodes, ulCount, <<>>)

\* a mutant of ToStringFT: the traversal frees the nodes it has listed
ToStringFTConsumes ==
    \E b \in BOOLEAN :
        LET o == FT_toString(FT, b)
        IN  Return("toString", <<>>, o.status, bIsInitialized,
                   IF o.status = "STRING" THEN NULL ELSE oRoot,
                   IF o.status = "STRING" THEN Node_free(nodes, oRoot).nodes
                   ELSE nodes,
                   ulCount, o.lines)

ToStringFT ==
    \E b \in BOOLEAN :
        LET o == FT_toString(FT, b)
        IN  Return("toString", <<>>, o.status, bIsInitialized, oRoot, nodes,
                   ulCount, o.lines)

Stat ==
    \E p \in PathStrings, f \in Faults :
        Return("stat", p, FT_stat(FT, p, f, FALSE, 0).status, bIsInitialized,
               oRoot, nodes, ulCount, <<>>)

GetFileContents ==
    \E p \in PathStrings, f \in Faults :
        Return("getFileContents", p, FT_getFileContents(FT, p, f).status,
               bIsInitialized, oRoot, nodes, ulCount, <<>>)

\* the Checker is called from outside, between the calls of the FT
IsTreeValid ==
    Return("isTreeValid", <<>>,
           CheckerDT_isValid(bIsInitialized, nodes, oRoot, ulCount),
           bIsInitialized, oRoot, nodes, ulCount, <<>>)

Next ==
    \/ InitFT
    \/ DestroyFT
    \/ InsertDir
    \/ InsertFile
    \/ RmDir
    \/ RmFile
    \/ ReplaceFileContents
    \/ ContainsDir
    \/ ContainsFile
    \/ ToStringFT
    \/ Stat
    \/ GetFileContents
    \/ IsTreeValid

Spec == Init /\ [][Next]_vars

(* ---- what the properties speak of ---- *)
\* the nodes reachable from root rt through the children relation
Reach(ns, rt) == {SubtreeSeq(ns, rt)[i] : i \in 1..Len(SubtreeSeq(ns, rt))}
NumReachable(ns, rt) == Cardinality(Reach(ns, rt))
\* the path P is the path of a reachable node
Present(ns, rt, P) == \E n \in Reach(ns, rt) : ns[n].oPPath = P
\* the reachable node with path P
NodeAt(ns, rt, P) == CHOOSE n \in Reach(ns, rt) : ns[n].oPPath = P
\* the FT state an outcome o leaves
After(o) ==
    [bIsInitialized |-> bIsInitialized, oRoot |-> o.oRoot, nodes |-> o.nodes]
WellFormed(P) == P # NULLPATH /\ Len(P) >= 1
ParentPath(P) == SubSeq(P, 1, Len(P) - 1)
\* the children of directory d hold pairwise distinct paths in strictly
\* ascending order
SortedChildren(ns, d) ==
    \A i, j \in 1..Len(Children(ns, d)) :
        i < j => Path_comparePath(ns[Children(ns, d)[i]].oPPath,
                                  ns[Children(ns, d)[j]].oPPath) < 0
AllSorted(ns, rt) ==
    \A d \in Reach(ns, rt) : ns[d].eType = FT_DIR => SortedChildren(ns, d)
\* P is absent and the directory that would hold it is present
Insertable(ns, rt, P) ==
    /\ WellFormed(P) /\ Len(P) >= 2
    /\ ~Present(ns, rt, P)
    /\ Present(ns, rt, ParentPath(P))
    /\ ns[NodeAt(ns, rt, ParentPath(P))].eType = FT_DIR
\* P is held by its parent directory, whose children are in order
PlacedSorted(ns, rt, P) ==
    /\ Present(ns, rt, ParentPath(P))
    /\ \E i \in 1..Len(Children(ns, NodeAt(ns, rt, ParentPath(P)))) :
          ns[Children(ns, NodeAt(ns, rt, ParentPath(P)))[i]].oPPath = P
    /\ SortedChildren(ns, NodeAt(ns, rt, ParentPath(P)))
\* what Node_new gives for a node of kind eType with path P under oNParent,
\* a node of the tree or NULL
NewChild(P, oNParent, eType) == Node_new(nodes, P, oNParent, eType, FALSE)
Parents == {NULL} \cup Reach(nodes, oRoot)
Kinds == {FT_DIR, FT_FILE}
\* the contents arguments of a call that copies the bytes <<1>>
OneByte == Contents(<<1>>)
NoOverrun == [crash |-> FALSE, tail |-> <<>>]

(* ---- C1 ---- *)
\* C1: in every reachable state the maintained node count equals the
\* number of nodes reachable from the root, and it is 0 exactly when the
\* root is absent.
C1_CountMatchesTree ==
    /\ ulCount = NumReachable(nodes, oRoot)
    /\ (ulCount = 0 <=> oRoot = NULL)

(* ---- C2 ---- *)
\* C2: in every reachable directory the children are pairwise distinct and
\* strictly ascending, and insertDir and insertFile place a new node at its
\* sorted position among its siblings.
C2_InsertPlacesSorted ==
    /\ AllSorted(nodes, oRoot)
    /\ \A P \in PathStrings :
          (bIsInitialized /\ Insertable(nodes, oRoot, P)) =>
             /\ PlacedSorted(FT_insertDir(FT, P, 0).nodes,
                             FT_insertDir(FT, P, 0).oRoot, P)
             /\ PlacedSorted(
                   FT_insertFile(FT, P, OneByte, 1, 0, NoOverrun).nodes,
                   FT_insertFile(FT, P, OneByte, 1, 0, NoOverrun).oRoot, P)

C5_KindsOfNodes ==
    /\ oRoot # NULL => Node_getType(nodes, oRoot) = FT_DIR
    /\ \A n \in Reach(nodes, oRoot) :
          /\ Node_getType(nodes, n) = FT_FILE =>
                (nodes[n].oChildren = NullArray /\ ~nodes[n].pcContents.null)
          /\ Node_getType(nodes, n) = FT_DIR =>
                (nodes[n].pcContents = NullContents /\ ~nodes[n].oChildren.null)
    /\ \A P \in PathStrings, par \in Parents :
          /\ NewChild(P, par, FT_FILE).status = SUCCESS =>
                NewChild(P, par, FT_FILE).nodes[
                   NewChild(P, par, FT_FILE).oNResult].oChildren = NullArray
          /\ NewChild(P, par, FT_DIR).status = SUCCESS =>
                NewChild(P, par, FT_DIR).nodes[
                   NewChild(P, par, FT_DIR).oNResult].pcContents = NullContents

C5_DirectoryRoot ==
    /\ bIsInitialized /\ oRoot # NULL
    /\ Node_getType(nodes, oRoot) = FT_DIR
    /\ op = "containsDir"

(* ---- C6 ---- *)
\* C6: immediately after a successful insertDir(P), containsDir(P) is true
\* and containsFile(P) is false; immediately after a successful
\* insertFile(P, bytes), containsFile(P) is true and containsDir(P) is
\* false; the root path included.
C6_InsertThenContains ==
    /\ (op = "insertDir" /\ result = SUCCESS) =>
          /\ FT_containsDir(FT, arg, 0) = "TRUE"
          /\ FT_containsFile(FT, arg, 0) = "FALSE"
    /\ (op = "insertFile" /\ result = SUCCESS) =>
          /\ FT_containsFile(FT, arg, 0) = "TRUE"
          /\ FT_containsDir(FT, arg, 0) = "FALSE"

(* ---- C7 ---- *)
\* C7: for a path P already present in the tree (the root included),
\* insertDir(P) and insertFile(P, ...) both return ALREADY_IN_TREE and leave
\* the tree and the count as they were.
C7_ReinsertRejected ==
    \A P \in PathStrings :
        (bIsInitialized /\ Present(nodes, oRoot, P)) =>
           /\ FT_insertDir(FT, P, 0).status = ALREADY_IN_TREE
           /\ FT_insertDir(FT, P, 0).nodes = nodes
           /\ FT_insertDir(FT, P, 0).oRoot = oRoot
           /\ CountAfterInsert(ulCount, FT_insertDir(FT, P, 0).status) = ulCount
           /\ FT_insertFile(FT, P, OneByte, 1, 0, NoOverrun).status =
                 ALREADY_IN_TREE
           /\ FT_insertFile(FT, P, OneByte, 1, 0, NoOverrun).nodes = nodes
           /\ FT_insertFile(FT, P, OneByte, 1, 0, NoOverrun).oRoot = oRoot

(* ---- C8 ---- *)
\* C8: for a path P that is absent while its parent directory is present,
\* insertDir(P) followed by rmDir(P), and insertFile(P, b) followed by
\* rmFile(P), both succeed and give back the tree and the count there were
\* before the insertion.
C8_InsertThenRemove ==
    \A P \in PathStrings :
        (bIsInitialized /\ Insertable(nodes, oRoot, P)) =>
           /\ FT_insertDir(FT, P, 0).status = SUCCESS
           /\ FT_rmDir(After(FT_insertDir(FT, P, 0)), P, 0).status = SUCCESS
           /\ FT_rmDir(After(FT_insertDir(FT, P, 0)), P, 0).nodes = nodes
           /\ FT_rmDir(After(FT_insertDir(FT, P, 0)), P, 0).oRoot = oRoot
           /\ CountAfterRemove(
                 CountAfterInsert(ulCount, FT_insertDir(FT, P, 0).status),
                 FT_rmDir(After(FT_insertDir(FT, P, 0)), P, 0).status,
                 FT_rmDir(After(FT_insertDir(FT, P, 0)), P, 0).ulFreed) = ulCount
           /\ FT_insertFile(FT, P, OneByte, 1, 0, NoOverrun).status = SUCCESS
           /\ FT_rmFile(After(FT_insertFile(FT, P, OneByte, 1, 0, NoOverrun)),
                        P, 0).status = SUCCESS
           /\ FT_rmFile(After(FT_insertFile(FT, P, OneByte, 1, 0, NoOverrun)),
                        P, 0).nodes = nodes

(* ---- C9 ---- *)
\* the reachable nodes at P or below it
SubtreeAt(ns, rt, P) ==
    {n \in Reach(ns, rt) : Path_isPrefix(Path_create(P), ns[n].oPPath)}

Entries(ns, rt) ==
    {[path |-> ns[n].oPPath,
      type |-> IF ns[n].eType = FT_FILE THEN "file" ELSE "dir"] :
        n \in Reach(ns, rt)}
\* the entries of kind ty directly below path P
Below(E, P, ty) ==
    {e \in E : /\ e.type = ty
               /\ Len(e.path) = Len(P) + 1
               /\ SubSeq(e.path, 1, Len(P)) = P}
\* a set of entries as a sequence in ascending path order
RECURSIVE Ascending(_)
Ascending(S) ==
    IF S = {} THEN <<>>
    ELSE LET least == CHOOSE e \in S :
                 \A f \in S : Path_comparePath(e.path, f.path) <= 0
         IN  <<least>> \o Ascending(S \ {least})
\* the listing that the set of entries E determines from entry e down: e,
\* the files below it, then the directories below it, each with its listing
RECURSIVE Listing(_, _)
RECURSIVE Listings(_, _)
Listing(E, e) ==
    <<e>> \o Ascending(Below(E, e.path, "file"))
          \o Listings(E, Ascending(Below(E, e.path, "dir")))
Listings(E, q) ==
    IF q = <<>> THEN <<>> ELSE Listing(E, Head(q)) \o Listings(E, Tail(q))
Canonical(E) ==
    IF E = {} THEN <<>>
    ELSE Listing(E, CHOOSE e \in E : Len(e.path) = 1)

\* C10: for an initialized non-empty tree FT_toString completes with one
\* line per reachable node, each node exactly once and each parent before
\* its descendants; below every directory the File lines precede the
\* Directory subtrees, each group ascending; the listing is the one the set
\* of (path, kind) pairs determines, as for a directory D and a file F put
\* side by side below a present directory.
C10_ToStringListing ==
    /\ (bIsInitialized /\ oRoot # NULL) =>
          /\ FT_toString(FT, FALSE).status = "STRING"
          /\ Len(FT_toString(FT, FALSE).lines) = NumReachable(nodes, oRoot)
          /\ \A e \in Entries(nodes, oRoot) :
                Cardinality({i \in 1..Len(FT_toString(FT, FALSE).lines) :
                    FT_toString(FT, FALSE).lines[i] = e}) = 1
          /\ \A i, j \in 1..Len(FT_toString(FT, FALSE).lines) :
                (i # j /\ Path_isPrefix(FT_toString(FT, FALSE).lines[i].path,
                                        FT_toString(FT, FALSE).lines[j].path))
                   => i < j
          /\ FT_toString(FT, FALSE).lines = Canonical(Entries(nodes, oRoot))
    /\ \A F, D \in PathStrings :
          (/\ bIsInitialized /\ F # D
           /\ Insertable(nodes, oRoot, F) /\ Insertable(nodes, oRoot, D)
           /\ ParentPath(F) = ParentPath(D)) =>
             LET s1 == After(FT_insertDir(FT, D, 0))
                 s2 == After(FT_insertFile(s1, F, OneByte, 1, 0, NoOverrun))
                 o  == FT_toString(s2, FALSE)
             IN  /\ o.status = "STRING"
                 /\ o.lines = Canonical(Entries(nodes, oRoot) \cup
                                  {[path |-> F, type |-> "file"],
                                   [path |-> D, type |-> "dir"]})

(* ---- C11 ---- *)
\* the FT functions that return a status code
StatusCalls ==
    {"init", "destroy", "insertDir", "insertFile", "rmDir", "rmFile", "stat"}

\* C11: after every call of the FT that returned SUCCESS,
\* CheckerDT_isValid(bIsInitialized, oRoot, count) returns TRUE.
C11_ValidAfterSuccess ==
    (op \in StatusCalls /\ result = SUCCESS) =>
        CheckerDT_isValid(bIsInitialized, nodes, oRoot, ulCount) = "TRUE"

(* ---- the Checker on trees built by hand ---- *)
\* The Checker is a function of the tree it is handed, and it is meant to
\* be handed trees the FT did not build.  CheckerSpec starts from one of the
\* trees below and calls the Checker on it: a root directory "1" (node 1)
\* over nodes 2 and 3 at depth 2 and node 4 at depth 3, with every choice of
\* children sequences, parent references, kinds and sibling paths.
CheckIds == 1..(MaxNodes + 1)
HandNode(oPPath, oNParent, eType, kids) ==
    [live |-> TRUE, oPPath |-> oPPath, oNParent |-> oNParent,
     oChildren |-> IF eType = FT_DIR THEN [null |-> FALSE, a |-> kids]
                   ELSE NullArray,
     eType |-> eType,
     pcContents |-> IF eType = FT_DIR THEN NullContents ELSE Contents(<<>>)]
HandTrees ==
    {[n \in CheckIds |->
        IF n = 1 THEN HandNode(<<1>>, NULL, FT_DIR, k1)
        ELSE IF n = 2 THEN HandNode(p2, par2, t2, <<>>)
        ELSE IF n = 3 THEN HandNode(p3, par3, FT_DIR, k3)
        ELSE IF n = 4 THEN HandNode(p4, par4, t4, <<>>)
        ELSE FreeCell] :
      k1 \in {<<2, 3>>, <<3, 2>>, <<2>>, <<3>>},
      p2 \in {<<1, 1>>, <<1, 2>>}, par2 \in {1, 3}, t2 \in {FT_DIR, FT_FILE},
      p3 \in {<<1, 1>>, <<1, 2>>}, par3 \in {1, 2},
      k3 \in {<<>>, <<4>>, <<4, 4>>},
      p4 \in {<<1, 1, 1>>, <<1, 2, 1>>}, par4 \in {3, 1},
      t4 \in {FT_DIR, FT_FILE}}

InitChecker ==
    /\ bIsInitialized = TRUE
    /\ oRoot = 1
    /\ nodes \in HandTrees
    /\ ulCount \in 1..(MaxNodes + 1)
    /\ op = "none"
    /\ arg = <<>>
    /\ result = "none"
    /\ lines = <<>>

NextChecker == IsTreeValid

CheckerSpec == InitChecker /\ [][NextChecker]_vars

(* ---- C12 ---- *)
\* directory d holds a child that does not refer back to d, or two children
\* with equal paths, or two adjacent children that are not in strictly
\* ascending order
CorruptDirectory(ns, d) ==
    \/ \E i \in 1..Len(Children(ns, d)) :
          Node_getParent(ns, Children(ns, d)[i]) # d
    \/ \E i, j \in 1..Len(Children(ns, d)) :
          i # j /\ Node_getPath(ns, Children(ns, d)[i]) =
                   Node_getPath(ns, Children(ns, d)[j])
    \/ \E i \in 1..(Len(Children(ns, d)) - 1) :
          Path_comparePath(Node_getPath(ns, Children(ns, d)[i]),
                           Node_getPath(ns, Children(ns, d)[i + 1])) >= 0
\* the nodes the children relation reaches from rt
RECURSIVE ReachWithin(_, _, _)
ReachWithin(ns, S, k) ==
    IF k = 0 THEN S
    ELSE ReachWithin(ns,
            S \cup UNION {{Children(ns, n)[i] : i \in 1..Len(Children(ns, n))} :
                          n \in S}, k - 1)
Corrupt(ns, rt) ==
    \E d \in ReachWithin(ns, {rt}, Cardinality(DOMAIN ns)) :
        Node_getType(ns, d) = FT_DIR /\ CorruptDirectory(ns, d)

\* C12: CheckerDT_isValid returns FALSE for every tree in which some
\* reachable directory has a child whose parent reference is not that
\* directory, or two children with equal paths, or two adjacent children
\* that are not in strictly ascending path order.
C12_CorruptionReported ==
    (op = "isTreeValid" /\ Corrupt(nodes, oRoot)) => result = "FALSE"

(* ---- C13 ---- *)
\* C13: after a successful insertFile(P, bytes) with bytes of length N,
\* stat(P) returns SUCCESS with isFile TRUE and size N, for every byte
\* sequence; after a successful insertDir(P), stat(P) returns SUCCESS with
\* isFile FALSE.
C13_StatAfterInsert ==
    /\ (op = "insertDir" /\ result = SUCCESS) =>
          /\ FT_stat(FT, arg, 0, TRUE, 0).status = SUCCESS
          /\ FT_stat(FT, arg, 0, TRUE, 0).bIsFile = FALSE
    /\ \A P \in PathStrings, pv \in ContentArgs, ub \in Overruns :
          \A N \in Lengths(pv) :
             (bIsInitialized /\
              FT_insertFile(FT, P, pv, N, 0, ub).status = SUCCESS) =>
                /\ FT_stat(After(FT_insertFile(FT, P, pv, N, 0, ub)),
                           P, 0, FALSE, 0).status = SUCCESS
                /\ FT_stat(After(FT_insertFile(FT, P, pv, N, 0, ub)),
                           P, 0, FALSE, 0).bIsFile = TRUE
                /\ FT_stat(After(FT_insertFile(FT, P, pv, N, 0, ub)),
                           P, 0, FALSE, 0).ulSize = N

(* ---- C14 ---- *)
\* C14: for a file P with contents c and new bytes d, a successful
\* replaceFileContents(P, d) returns a buffer whose value is c, and a
\* following getFileContents(P) returns d; so it is for a file P just
\* inserted with contents c below a present directory.
C14_ReplaceReturnsOld ==
    \A P \in PathStrings, c \in Buffers, d \in Buffers :
        (/\ bIsInitialized /\ Insertable(nodes, oRoot, P)
         /\ c # <<>> /\ d # <<>> /\ ~HasNul(c) /\ ~HasNul(d)) =>
           LET s1 == After(FT_insertFile(FT, P, Contents(c), Len(c), 0,
                                         NoOverrun))
               r  == FT_replaceFileContents(s1, P, Contents(d), Len(d), 0,
                                            NoOverrun)
               g  == FT_getFileContents(After(r), P, 0)
           IN  /\ r.status = "OLD"
               /\ ~r.freed
               /\ r.old = Contents(c)
               /\ g.status = "CONTENTS"
               /\ g.contents = Contents(d)

(* ---- C15 ---- *)
\* C15: while the FT is uninitialized, insertDir, insertFile, rmDir, rmFile
\* and stat return INITIALIZATION_ERROR, containsDir and containsFile return
\* FALSE, getFileContents, replaceFileContents and toString return NULL, and
\* the FT stays uninitialized with no root.
C15_UninitializedCalls ==
    ~bIsInitialized =>
       /\ oRoot = NULL
       /\ \A P \in PathStrings, f \in Faults :
             /\ FT_insertDir(FT, P, f) = Ret(FT, INITIALIZATION_ERROR)
             /\ FT_rmDir(FT, P, f) = RetRm(FT, INITIALIZATION_ERROR)
             /\ FT_rmFile(FT, P, f) = RetRm(FT, INITIALIZATION_ERROR)
             /\ \A b \in BOOLEAN, n \in 0..MaxLen :
                   FT_stat(FT, P, f, b, n) =
                      [status |-> INITIALIZATION_ERROR, bIsFile |-> b,
                       ulSize |-> n]
             /\ FT_containsDir(FT, P, f) = "FALSE"
             /\ FT_containsFile(FT, P, f) = "FALSE"
             /\ FT_getFileContents(FT, P, f).status = "NULL"
             /\ \A pv \in ContentArgs, ub \in Overruns :
                   \A N \in Lengths(pv) :
                      /\ FT_insertFile(FT, P, pv, N, f, ub) =
                            Ret(FT, INITIALIZATION_ERROR)
                      /\ FT_replaceFileContents(FT, P, pv, N, f, ub).status =
                            "NULL"
                      /\ FT_replaceFileContents(FT, P, pv, N, f, ub).nodes =
                            nodes
       /\ \A b \in BOOLEAN : FT_toString(FT, b).status = "NULL"

\* a call made on the uninitialized FT was turned down
C15_CalledUninitialized ==
    /\ ~bIsInitialized /\ oRoot = NULL
    /\ op = "stat" /\ result = INITIALIZATION_ERROR

(* ---- C16 ---- *)
\* the FT state an outcome of FT_init or FT_destroy leaves
AfterLife(o) ==
    [bIsInitialized |-> o.bIsInitialized, oRoot |-> o.oRoot, nodes |-> o.nodes]

\* C16: init succeeds exactly when the FT is uninitialized and leaves it
\* initialized with an empty tree; destroy succeeds exactly when the FT is
\* initialized and leaves it uninitialized with no root and no node; the
\* refused calls return INITIALIZATION_ERROR and change nothing; after
\* destroy and init no path of the session before is in the tree.
C16_Lifecycle ==
    /\ (FT_init(FT).status = SUCCESS) <=> ~bIsInitialized
    /\ (FT_destroy(FT).status = SUCCESS) <=> bIsInitialized
    /\ ~bIsInitialized =>
          /\ FT_init(FT).bIsInitialized
          /\ FT_init(FT).oRoot = NULL
          /\ Reach(FT_init(FT).nodes, FT_init(FT).oRoot) = {}
          /\ FT_destroy(FT) =
                [status |-> INITIALIZATION_ERROR, bIsInitialized |-> FALSE,
                 oRoot |-> oRoot, nodes |-> nodes]
    /\ bIsInitialized =>
          /\ ~FT_destroy(FT).bIsInitialized
          /\ FT_destroy(FT).oRoot = NULL
          /\ \A n \in NodeIds : ~FT_destroy(FT).nodes[n].live
          /\ FT_init(FT) =
                [status |-> INITIALIZATION_ERROR, bIsInitialized |-> TRUE,
                 oRoot |-> oRoot, nodes |-> nodes]
          /\ FT_init(AfterLife(FT_destroy(FT))).status = SUCCESS
          /\ \A P \in PathStrings :
                /\ ~Present(FT_init(AfterLife(FT_destroy(FT))).nodes,
                            FT_init(AfterLife(FT_destroy(FT))).oRoot, P)
                /\ FT_containsDir(AfterLife(FT_init(AfterLife(FT_destroy(FT)))),
                                  P, 0) = "FALSE"
                /\ FT_containsFile(AfterLife(FT_init(AfterLife(FT_destroy(FT)))),
                                   P, 0) = "FALSE"
    /\ (op = "destroy" /\ result = SUCCESS) =>
          (~bIsInitialized /\ oRoot = NULL /\ \A n \in NodeIds : ~nodes[n].live)
    /\ (op = "init" /\ result = SUCCESS) => (bIsInitialized /\ oRoot = NULL)

\* an initialized FT was destroyed
C16_Destroyed ==
    /\ op = "destroy" /\ result = SUCCESS
    /\ ~bIsInitialized

(* ---- C17 ---- *)
\* C17: whenever insertDir or insertFile returns a code other than SUCCESS,
\* for whatever reason, the root and every node are what they were before
\* the call: nothing built on the way, such as an automatically created
\* root, remains.
C17_FailedInsertChangesNothing ==
    \A P \in PathStrings, f \in Faults :
        /\ FT_insertDir(FT, P, f).status \notin {SUCCESS, ABORTED} =>
              /\ FT_insertDir(FT, P, f).oRoot = oRoot
              /\ FT_insertDir(FT, P, f).nodes = nodes
        /\ \A pv \in ContentArgs, ub \in Overruns :
              \A N \in Lengths(pv) :
                 FT_insertFile(FT, P, pv, N, f, ub).status
                       \notin {SUCCESS, ABORTED} =>
                    /\ FT_insertFile(FT, P, pv, N, f, ub).oRoot = oRoot
                    /\ FT_insertFile(FT, P, pv, N, f, ub).nodes = nodes

(* ---- C18 ---- *)
\* C18: on an initialized empty tree insertFile(P, bytes) with depth(P) = 2
\* succeeds, and afterwards the root is a Directory whose path is the
\* depth-1 prefix of P and whose only child is the File node P.
C18_FileIntoEmptyTree ==
    (bIsInitialized /\ oRoot = NULL) =>
       \A P \in PathStrings :
          (WellFormed(P) /\ Path_getDepth(Path_create(P)) = 2) =>
             LET o == FT_insertFile(FT, P, OneByte, 1, 0, NoOverrun)
             IN  /\ o.status = SUCCESS
                 /\ o.oRoot # NULL
                 /\ Node_getType(o.nodes, o.oRoot) = FT_DIR
                 /\ Node_getPath(o.nodes, o.oRoot) = Path_prefix(P, 1)
                 /\ Len(Children(o.nodes, o.oRoot)) = 1
                 /\ Node_getPath(o.nodes, Children(o.nodes, o.oRoot)[1]) = P
                 /\ Node_getType(o.nodes, Children(o.nodes, o.oRoot)[1]) =
                       FT_FILE

(* ---- C19 ---- *)
\* C19: insertFile(P, ...) with depth(P) = 1 returns CONFLICTING_PATH in
\* every initialized state, whether the tree is empty or has a root with an
\* equal or a different path, and leaves the tree unchanged.
C19_FileAsRootRefused ==
    bIsInitialized =>
       \A P \in PathStrings :
          (WellFormed(P) /\ Path_getDepth(Path_create(P)) = 1) =>
             /\ FT_insertFile(FT, P, OneByte, 1, 0, NoOverrun).status =
                   CONFLICTING_PATH
             /\ FT_insertFile(FT, P, OneByte, 1, 0, NoOverrun).oRoot = oRoot
             /\ FT_insertFile(FT, P, OneByte, 1, 0, NoOverrun).nodes = nodes

UnderRoot(P) ==
    /\ oRoot # NULL /\ WellFormed(P)
    /\ Path_isPrefix(Node_getPath(nodes, oRoot), P)
\* the proper prefixes of P of depth 2 and more
MiddlePrefixes(P) == {Path_prefix(P, k) : k \in 2..(Len(P) - 1)}

\* C21: with the root a prefix of P, every present proper prefix of P of
\* depth >= 2 a directory, P's parent directory present and P absent,
\* insertDir(P) succeeds; with some proper prefix of P under the root
\* absent, insertDir(P) returns NO_SUCH_PATH and the tree is unchanged.
C21_InsertDirBelowRoot ==
    \A P \in PathStrings :
        (bIsInitialized /\ UnderRoot(P)) =>
           /\ (/\ \A Q \in MiddlePrefixes(P) :
                     Present(nodes, oRoot, Q) =>
                        Node_getType(nodes, NodeAt(nodes, oRoot, Q)) = FT_DIR
               /\ Insertable(nodes, oRoot, P)) =>
                 FT_insertDir(FT, P, 0).status = SUCCESS
           /\ (\E Q \in MiddlePrefixes(P) : ~Present(nodes, oRoot, Q)) =>
                 FT_insertDir(FT, P, 0) = Ret(FT, NO_SUCH_PATH)

(* ---- C22 ---- *)
\* C22: on a non-empty tree insertFile(P, ...) returns NO_SUCH_PATH, the
\* code insertDir(P) returns, when a proper prefix of P under the root is
\* absent, and the tree is unchanged.
C22_InsertFileMissingPrefix ==
    \A P \in PathStrings :
        (/\ bIsInitialized /\ UnderRoot(P)
         /\ \E Q \in MiddlePrefixes(P) : ~Present(nodes, oRoot, Q)) =>
           /\ FT_insertFile(FT, P, OneByte, 1, 0, NoOverrun) =
                 Ret(FT, NO_SUCH_PATH)
           /\ FT_insertFile(FT, P, OneByte, 1, 0, NoOverrun).status =
                 FT_insertDir(FT, P, 0).status

(* ---- C23 ---- *)
\* the path F is a proper prefix of the path P
ProperPrefix(F, P) == Len(F) < Len(P) /\ Path_isPrefix(F, P)

\* C23: whenever a proper prefix F of P resolves to a File node,
\* insertDir(P) and insertFile(P, ...) return NOT_A_DIRECTORY and leave the
\* tree unchanged; so it is once a file F was inserted below a present
\* directory.
C23_PrefixIsFile ==
    /\ \A P \in PathStrings, F \in PathStrings :
          (/\ bIsInitialized /\ WellFormed(P) /\ ProperPrefix(F, P)
           /\ Present(nodes, oRoot, F)
           /\ Node_getType(nodes, NodeAt(nodes, oRoot, F)) = FT_FILE) =>
             /\ FT_insertDir(FT, P, 0) = Ret(FT, NOT_A_DIRECTORY)
             /\ FT_insertFile(FT, P, OneByte, 1, 0, NoOverrun) =
                   Ret(FT, NOT_A_DIRECTORY)
    /\ \A P \in PathStrings, F \in PathStrings :
          (/\ bIsInitialized /\ WellFormed(P) /\ ProperPrefix(F, P)
           /\ Insertable(nodes, oRoot, F)) =>
             LET s1 == After(FT_insertFile(FT, F, OneByte, 1, 0, NoOverrun))
             IN  /\ Present(s1.nodes, s1.oRoot, F)
                 /\ FT_insertDir(s1, P, 0) = Ret(s1, NOT_A_DIRECTORY)
                 /\ FT_insertFile(s1, P, OneByte, 1, 0, NoOverrun) =
                       Ret(s1, NOT_A_DIRECTORY)

(* ---- C24 ---- *)
\* C24: with the root present and its path not a prefix of the well-formed
\* path P, insertDir(P), insertFile(P, ...), rmDir(P) and rmFile(P) return
\* CONFLICTING_PATH and leave the tree unchanged.
C24_OutsideRoot ==
    \A P \in PathStrings :
        (/\ bIsInitialized /\ oRoot # NULL /\ WellFormed(P)
         /\ ~Path_isPrefix(Node_getPath(nodes, oRoot), P)) =>
           /\ FT_insertDir(FT, P, 0) = Ret(FT, CONFLICTING_PATH)
           /\ FT_insertFile(FT, P, OneByte, 1, 0, NoOverrun) =
                 Ret(FT, CONFLICTING_PATH)
           /\ FT_rmDir(FT, P, 0) = RetRm(FT, CONFLICTING_PATH)
           /\ FT_rmFile(FT, P, 0) = RetRm(FT, CONFLICTING_PATH)

(* ---- C25 ---- *)
\* C25: rmDir(P) and rmFile(P) that do not succeed leave the tree unchanged;
\* they return NO_SUCH_PATH when P is absent, the empty tree included,
\* rmDir returns NOT_A_DIRECTORY when P is a File, rmFile returns NOT_A_FILE
\* when P is a Directory other than the root and CONFLICTING_PATH when P is
\* the root; so it is for a file and a directory P just inserted below a
\* present directory.
C25_RefusedRemovals ==
    /\ \A P \in PathStrings, f \in Faults :
          /\ FT_rmDir(FT, P, f).status \notin {SUCCESS, ABORTED} =>
                FT_rmDir(FT, P, f) = RetRm(FT, FT_rmDir(FT, P, f).status)
          /\ FT_rmFile(FT, P, f).status \notin {SUCCESS, ABORTED} =>
                FT_rmFile(FT, P, f) = RetRm(FT, FT_rmFile(FT, P, f).status)
    /\ \A P \in PathStrings :
          (bIsInitialized /\ WellFormed(P)) =>
             /\ ~Present(nodes, oRoot, P) =>
                   /\ FT_rmDir(FT, P, 0).status = NO_SUCH_PATH
                   /\ FT_rmFile(FT, P, 0).status = NO_SUCH_PATH
             /\ (oRoot # NULL /\ Node_getPath(nodes, oRoot) = P) =>
                   FT_rmFile(FT, P, 0).status = CONFLICTING_PATH
             /\ (/\ Present(nodes, oRoot, P)
                 /\ Node_getType(nodes, NodeAt(nodes, oRoot, P)) = FT_FILE) =>
                   FT_rmDir(FT, P, 0).status = NOT_A_DIRECTORY
             /\ (/\ Present(nodes, oRoot, P) /\ NodeAt(nodes, oRoot, P) # oRoot
                 /\ Node_getType(nodes, NodeAt(nodes, oRoot, P)) = FT_DIR) =>
                   FT_rmFile(FT, P, 0).status = NOT_A_FILE
    /\ \A P \in PathStrings :
          (bIsInitialized /\ Insertable(nodes, oRoot, P)) =>
             LET s1 == After(FT_insertDir(FT, P, 0))
                 s2 == After(FT_insertFile(FT, P, OneByte, 1, 0, NoOverrun))
             IN  /\ FT_rmFile(s1, P, 0) = RetRm(s1, NOT_A_FILE)
                 /\ FT_rmDir(s2, P, 0) = RetRm(s2, NOT_A_DIRECTORY)

C28_StatOutputs ==
    \A P \in PathStrings, f \in Faults, b \in BOOLEAN, n \in 0..MaxLen :
        LET o == FT_stat(FT, P, f, b, n)
        IN  /\ o.status \notin {SUCCESS, ABORTED} =>
                  (o.bIsFile = b /\ o.ulSize = n)
            /\ (/\ o.status = SUCCESS
                /\ Node_getType(nodes, NodeAt(nodes, oRoot, P)) = FT_DIR) =>
                  (o.bIsFile = FALSE /\ o.ulSize = n)

\* stat was refused on a tree with a root, for a path below the root
C28_StatRefused ==
    /\ op = "stat" /\ result = NO_SUCH_PATH
    /\ bIsInitialized /\ UnderRoot(arg)
    /\ FT_stat(FT, arg, 0, TRUE, 1) =
          [status |-> NO_SUCH_PATH, bIsFile |-> TRUE, ulSize |-> 1]

(* ---- C29 ---- *)
\* C29: on an initialized FT stat(P) returns NO_SUCH_PATH when the tree is
\* empty or the root's path is a prefix of P and P is absent,
\* CONFLICTING_PATH when the root is present and its path is not a prefix
\* of P, and SUCCESS for every P present in the tree, the root included.
C29_StatCodes ==
    \A P \in PathStrings :
        (bIsInitialized /\ WellFormed(P)) =>
           /\ oRoot = NULL => FT_stat(FT, P, 0, FALSE, 0).status = NO_SUCH_PATH
           /\ (UnderRoot(P) /\ ~Present(nodes, oRoot, P)) =>
                 FT_stat(FT, P, 0, FALSE, 0).status = NO_SUCH_PATH
           /\ (oRoot # NULL /\ ~UnderRoot(P)) =>
                 FT_stat(FT, P, 0, FALSE, 0).status = CONFLICTING_PATH
           /\ Present(nodes, oRoot, P) =>
                 FT_stat(FT, P, 0, FALSE, 0).status = SUCCESS

(* ---- C30 ---- *)
\* The Node module called on its own: nodes are made with Node_new, with no
\* parent or below a node made before, and the contents of a node are set
\* with Node_setContents.
InitNode ==
    /\ bIsInitialized = FALSE
    /\ oRoot = NULL
    /\ nodes = [n \in NodeIds |-> FreeCell]
    /\ ulCount = 0
    /\ op = "none"
    /\ arg = <<>>
    /\ result = "none"
    /\ lines = <<>>

NodeNew ==
    \E P \in PathStrings, eType \in Kinds, bFault \in BOOLEAN,
       oNParent \in {NULL} \cup {n \in NodeIds : nodes[n].live} :
        /\ WellFormed(P)
        /\ LET r == Node_new(nodes, P, oNParent, eType, bFault)
           IN  Return("Node_new", P, r.status, bIsInitialized, oRoot, r.nodes,
                      ulCount, <<>>)

NodeSetContents ==
    \E n \in NodeIds, pc \in ContentArgs, bFault \in BOOLEAN, ub \in Overruns :
        /\ nodes[n].live
        /\ LET c == Node_setContents(nodes, n, pc, bFault, ub)
           IN  Return("Node_setContents", Node_getPath(nodes, n),
                      IF c.crash THEN ABORTED ELSE IF c.ok THEN "1" ELSE "0",
                      bIsInitialized, oRoot, c.nodes, ulCount, <<>>)

NextNode ==
    \/ NodeNew
    \/ NodeSetContents

NodeSpec == InitNode /\ [][NextNode]_vars

\* the live File nodes
Files == {n \in NodeIds : nodes[n].live /\ Node_getType(nodes, n) = FT_FILE}
\* steps 1 to 3 of FT_replaceFileContents having arrived at the File node n
\* after k allocation requests
FoundAt(n, k) == [status |-> SUCCESS, oCurr |-> n, ulNext |-> k]

\* C30: when its allocation fails, Node_setContents returns 0 and the
\* contents of the file are what they were before the call; when one of
\* its allocations fails, steps 4 and 5 of FT_replaceFileContents return
\* NULL, free nothing of the file and leave its contents what they were;
\* the old buffer is given up only by a call that installs the new one.
C30_FailedStoreKeepsContents ==
    \A n \in Files, pc \in ContentArgs, ub \in Overruns :
        /\ LET c == Node_setContents(nodes, n, pc, TRUE, ub)
           IN  ~c.crash => (~c.ok /\ c.nodes = nodes)
        /\ LET c == Node_setContents(nodes, n, pc, FALSE, ub)
           IN  c.nodes # nodes => c.ok
        /\ \A len \in Lengths(pc), f \in 1..MaxFault :
              LET r == ReplaceStore(FT, FoundAt(n, 1), pc, len, f, ub)
              IN  /\ (f = 1 /\ r.status # ABORTED) =>
                        (r.status = "NULL" /\ r.nodes = nodes /\ ~r.freed)
                  /\ r.status = "NULL" => (r.nodes = nodes /\ ~r.freed)
                  /\ r.freed => (r.status = "OLD" /\
                                 r.old = Node_getContents(nodes, n))

\* a file holding bytes was asked for new contents, the allocation failed,
\* and the bytes are still there
C30_StoreFailed ==
    /\ op = "Node_setContents" /\ result = "0"
    /\ \E n \in Files :
          /\ Node_getPath(nodes, n) = arg
          /\ Node_getContents(nodes, n) = Contents(<<1>>)
          /\ \A m \in Files : m # n => Node_getPath(nodes, m) # arg

(* ---- C31 ---- *)
\* C31: the buffer a successful replaceFileContents returns has not been
\* freed by the tree when the call returns; it is the buffer the file held
\* before the call, and the file holds another one afterwards.
C31_ReturnedBufferLive ==
    \A n \in Files, pc \in ContentArgs, ub \in Overruns :
        \A len \in Lengths(pc) :
            LET r == ReplaceStore(FT, FoundAt(n, 1), pc, len, 0, ub)
            IN  r.status = "OLD" =>
                   /\ r.old = Node_getContents(nodes, n)
                   /\ ~r.freed

(* ---- C32 ---- *)
\* the live Directory nodes
Dirs == {n \in NodeIds : nodes[n].live /\ Node_getType(nodes, n) = FT_DIR}
\* steps 1 to 5 of FT_insertFile having made the File node n to go under
\* the directory d, after k allocation requests
MadeAt(d, n, k) ==
    [status |-> SUCCESS, oRoot |-> d, nodes |-> nodes, oCurr |-> d,
     oNewNode |-> n, ulNext |-> k]
\* the N bytes the caller handed over
Given(pv, N) == IF pv.null \/ N = 0 THEN <<>> ELSE SubSeq(pv.s, 1, N)

\* C32: after steps 6 and 7 of a successful insertFile(P, bytes, N) the
\* contents of the file are the N given bytes, whatever the bytes, a zero
\* byte included, and the empty contents when bytes is absent or N = 0;
\* the call reads nothing beyond the N bytes.
C32_StoredBytes ==
    \A d \in Dirs, n \in Files, pv \in ContentArgs, ub \in Overruns :
        \A N \in Lengths(pv) :
            LET o == InsertFileStore(MadeAt(d, n, 1), pv, N, 0, ub)
            IN  /\ o.status # ABORTED
                /\ o.status = SUCCESS =>
                      Node_getContents(o.nodes, n) = Contents(Given(pv, N))

(* ---- C33 ---- *)
\* the calls that only read the FT
Queries ==
    {"containsDir", "containsFile", "getFileContents", "stat", "toString",
     "isTreeValid"}

CreateCode(P, oNParent) ==
    IF Path_getDepth(P) = 0 THEN NO_SUCH_PATH
    ELSE IF oNParent = NULL
    THEN IF Path_getDepth(P) # 1 THEN NO_SUCH_PATH ELSE SUCCESS
    ELSE IF Path_getDepth(P) #
               Path_getDepth(Node_getPath(nodes, oNParent)) + 1
    THEN NO_SUCH_PATH
    ELSE IF ~Path_isPrefix(Node_getPath(nodes, oNParent), P)
    THEN CONFLICTING_PATH
    ELSE IF \E i \in 1..Len(Children(nodes, oNParent)) :
               Node_getPath(nodes, Children(nodes, oNParent)[i]) = P
    THEN ALREADY_IN_TREE
    ELSE SUCCESS

\* C34: Node_new returns NO_SUCH_PATH for a path of depth 0, for a path of
\* depth other than 1 without a parent and for a path not one deeper than
\* the parent's; otherwise CONFLICTING_PATH when the parent's path is not a
\* prefix of the path; otherwise ALREADY_IN_TREE when the parent holds a
\* child with an equal path; otherwise it succeeds with a node whose parent
\* reference is the parent; the parent's children are never changed.
C34_CreateCodes ==
    \A P \in PathStrings \ {NULLPATH}, k \in Kinds,
       oNParent \in {NULL} \cup Dirs :
        LET r == Node_new(nodes, P, oNParent, k, FALSE)
        IN  /\ Malloc(nodes) # NULL => r.status = CreateCode(P, oNParent)
            /\ r.status = SUCCESS =>
                  Node_getParent(r.nodes, r.oNResult) = oNParent
            /\ oNParent # NULL =>
                  Children(r.nodes, oNParent) = Children(nodes, oNParent)

(* ---- C35 ---- *)
\* the Directory nodes whose recorded parent does not hold the node's path
\* less its last component (a File node is the matter of C38)
Misparented ==
    {n \in Dirs : /\ Node_getParent(nodes, n) # NULL
                  /\ Node_getPath(nodes, Node_getParent(nodes, n)) #
                     ParentPath(Node_getPath(nodes, n))}

\* C35: CheckerDT_Node_isValid returns FALSE for every node whose parent's
\* path is not the node's path with its last component removed, a parent
\* with a deeper path or one that only shares the first depth-1 components
\* included.
C35_WrongParentRejected ==
    \A n \in Misparented : CheckerDT_Node_isValid(nodes, n) = "FALSE"

(* ---- C36 ---- *)
\* the counts the Checker may be handed
Counts == 0..(MaxNodes + 1)
\* what CheckerDT_isValid is to require of the root oRoot and the count n
TreeInOrder(n) ==
    IF ~bIsInitialized THEN n = 0 /\ oRoot = NULL
    ELSE /\ (n = 0 <=> oRoot = NULL)
         /\ \A m \in Reach(nodes, oRoot) :
               CheckerDT_Node_isValid(nodes, m) = "TRUE"
         /\ Len(SubtreeSeq(nodes, oRoot)) = n

C37_LeafDirectoryValid ==
    \A d \in Dirs :
        (/\ Children(nodes, d) = <<>>
         /\ WellFormed(Node_getPath(nodes, d))
         /\ Node_getParent(nodes, d) # NULL =>
               Node_getPath(nodes, Node_getParent(nodes, d)) =
                   ParentPath(Node_getPath(nodes, d)))
            => CheckerDT_Node_isValid(nodes, d) = "TRUE"

(* ---- C38 ---- *)
\* C38: no pass of the Checker and no operation of the FT calls
\* Node_getNumChildren or Node_getChild on a File node, the call that fails
\* the assertion of nodeFT.c:213 and 231: CheckerDT_isValid, FT_toString,
\* FT_rmDir and FT_containsDir all run to their return.
C38_NoChildCallOnFile ==
    /\ \A n \in Counts :
          CheckerDT_isValid(bIsInitialized, nodes, oRoot, n) # ABORTED
    /\ FT_toString(FT, FALSE).status # ABORTED
    /\ \A P \in PathStrings :
          /\ FT_rmDir(FT, P, 0).status # ABORTED
          /\ FT_containsDir(FT, P, 0) # ABORTED

(* ---- C39 ---- *)
\* the nodes allocated and not freed
Allocated == {n \in NodeIds : nodes[n].live}
\* the number of places the children sequences hold node n at
HeldCount(n) ==
    Cardinality({<<d, i>> \in NodeIds \X (1..MaxNodes) :
                    /\ nodes[d].live
                    /\ i <= Len(Children(nodes, d))
                    /\ Children(nodes, d)[i] = n})
\* Node_free on the root frees live nodes only, and none of them twice
FreedOnce ==
    LET gone == SubtreeSeq(nodes, oRoot)
    IN  \A i, j \in 1..Len(gone) :
           /\ nodes[gone[i]].live
           /\ i # j => gone[i] # gone[j]

\* C39: after every call, failed ones and failed allocations included, the
\* allocated nodes are the nodes reachable from the root, the root is in no
\* children sequence and every other allocated node is in exactly one, once;
\* freeing the tree frees every node once; after FT_destroy no node is
\* allocated.
C39_NodesOwnedOnce ==
    /\ Allocated = Reach(nodes, oRoot)
    /\ \A n \in Allocated : HeldCount(n) = IF n = oRoot THEN 0 ELSE 1
    /\ FreedOnce
    /\ (op = "destroy" /\ result = SUCCESS) => Allocated = {}
    /\ (op = "rmDir" /\ result = SUCCESS) => Allocated = {}
\* the tree has been removed through FT_rmDir and its nodes freed
C39_TreeFreed ==
    /\ op = "rmDir" /\ result = SUCCESS
    /\ oRoot = NULL /\ Allocated = {}

(* ---- C40 ---- *)
\* the nodes of the tree before and after a step
Before == Reach(nodes, oRoot)
Now == Reach(nodes', oRoot')
\* the nodes of S keep their path, kind, parent and contents, and the
\* directories among them the order of those children that are in S
KeptBut(S, bContents) ==
    \A n \in S :
        /\ nodes'[n].oPPath = nodes[n].oPPath
        /\ nodes'[n].eType = nodes[n].eType
        /\ nodes'[n].oNParent = nodes[n].oNParent
        /\ bContents => nodes'[n].pcContents = nodes[n].pcContents
        /\ nodes[n].eType = FT_DIR =>
              SelectSeq(Children(nodes', n), LAMBDA c : c \in S) =
              SelectSeq(Children(nodes, n), LAMBDA c : c \in S)

====
